---- MODULE Spec2Model ----
(***************************************************************************)
(* Model of atp_sdk/clients.py: ToolKitClient (tool registry, dispatch of  *)
(* inbound invocations over the Duplex socket and the polling inbox,       *)
(* interactive app sessions) and LLMClient (request/response correlation   *)
(* over the Duplex socket).                                                *)
(***************************************************************************)
EXTENDS Integers, Sequences, FiniteSets, TLC

(***************************************************************************)
(* Bounds of the model.                                                    *)
(***************************************************************************)
MaxTools == 1        \* names a client registers tools under
MaxCallers == 2      \* caller threads of one LLMClient
MaxResponses == 3    \* messages the server pushes to one LLMClient
MaxBatch == 2        \* tool calls in one batch handed to an LLMClient
IdleTimeout == 2     \* idle_timeout, in ticks of the clock
MaxConns == 3        \* WebSocketApp objects one LLMClient creates

(***************************************************************************)
(* Python values.  A dict is a function from keys to atoms (strings); the  *)
(* value None and the empty dict, where they occur as values, are atoms.   *)
(* A value whose shape varies (a reply's result) carries a tag.            *)
(***************************************************************************)
None == "None"
EmptyVal == "{}"
EmptyDict == [k \in {} |-> ""]
Keys(d) == DOMAIN d
Get(d, k, default) == IF k \in DOMAIN d THEN d[k] ELSE default
Put(d, k, v) == [x \in (DOMAIN d) \cup {k} |-> IF x = k THEN v ELSE d[x]]
Del(d, k) == [x \in (DOMAIN d) \ {k} |-> d[x]]
Truthy(v) == v \notin {None, "", "False", EmptyVal}
DictV(d) == <<"dict", d>>
AtomV(a) == IF a = EmptyVal THEN <<"dict", EmptyDict>> ELSE <<"atom", a>>
ErrorResult(m) == "error" :> m

(***************************************************************************)
(* Callables a registrant may hand to register_tool.  A callable is known  *)
(* by its signature (required and defaulted named parameters, **kwargs     *)
(* acceptor) and by what its body does.                                    *)
(***************************************************************************)
Fn(id, required, optional, varkw, body) ==
    [id |-> id, required |-> required, optional |-> optional,
     varkw |-> varkw, body |-> body]

NoNames == {n \in {""} : FALSE}
EchoFn == Fn("echo", {"text"}, NoNames, FALSE, "echo")
BoomFn == Fn("boom", {"text"}, NoNames, FALSE, "raise")
SecureFn == Fn("secure", {"text", "auth_token"}, NoNames, FALSE, "echo")
LenientFn == Fn("lenient", {"text"}, {"auth_token"}, FALSE, "echo")
AnyKwFn == Fn("anykw", NoNames, NoNames, TRUE, "kwargs")
AppFn == Fn("app", {"action"}, {"action_data", "current_state", "auth_token"}, TRUE, "app")
LegacyFn == Fn("legacy", {"text", "api_key"}, NoNames, FALSE, "echo")

Callables == {EchoFn, BoomFn, SecureFn, LenientFn, AnyKwFn, AppFn, LegacyFn}

SigParameters(f) == f.required \cup f.optional
HasVarKeyword(f) == f.varkw

\* func(**kwargs): the arguments bind to the signature or TypeError is raised
Binds(f, kwargs) ==
    /\ f.required \subseteq Keys(kwargs)
    /\ (f.varkw \/ Keys(kwargs) \subseteq SigParameters(f))

\* the interactive app: a three-state counter driven by action_data
AppNextState(s) ==
    CASE s = "s0" -> "s1"
      [] s = "s1" -> "s2"
      [] OTHER -> "s0"

AppBody(kwargs) ==
    LET action == Get(kwargs, "action", None)
        data == Get(kwargs, "action_data", None)
        cur == Get(kwargs, "current_state", None)
    IN  IF action = "start"
        THEN [raised |-> FALSE, msg |-> "",
              value |-> ("ui_content" :> "ui_start" @@ "app_state" :> "s0")]
        ELSE CASE data = "inc" ->
                   [raised |-> FALSE, msg |-> "",
                    value |-> ("ui_content" :> "ui_inc" @@ "app_state" :> AppNextState(cur))]
               [] data = "keep" ->
                   [raised |-> FALSE, msg |-> "",
                    value |-> ("ui_content" :> "ui_keep")]
               [] data = "quit" ->
                   [raised |-> FALSE, msg |-> "",
                    value |-> ("ui_content" :> "ui_bye" @@ "terminate" :> "True")]
               [] OTHER ->
                   [raised |-> TRUE, msg |-> "boom", value |-> EmptyDict]

\* the outcome of func(**kwargs): ran says whether the body was entered
Call(f, kwargs) ==
    IF ~Binds(f, kwargs)
    THEN [raised |-> TRUE, ran |-> FALSE, msg |-> "TypeError", value |-> EmptyDict]
    ELSE CASE f.body = "echo" ->
                [raised |-> FALSE, ran |-> TRUE, msg |-> "",
                 value |-> Del(kwargs, "auth_token")]
           [] f.body = "kwargs" ->
                [raised |-> FALSE, ran |-> TRUE, msg |-> "", value |-> kwargs]
           [] f.body = "raise" ->
                [raised |-> TRUE, ran |-> TRUE, msg |-> "boom", value |-> EmptyDict]
           [] OTHER ->
                [raised |-> AppBody(kwargs).raised, ran |-> TRUE,
                 msg |-> AppBody(kwargs).msg, value |-> AppBody(kwargs).value]

Invocation(f, kwargs) == [fn |-> f.id, kwargs |-> kwargs]
InvokedBy(f, kwargs) == IF Call(f, kwargs).ran THEN <<Invocation(f, kwargs)>> ELSE <<>>

(***************************************************************************)
(* State.  ToolKitClient fields keep their names; handled, replies,        *)
(* invoked and escaped describe the handler call that produced the state:  *)
(* its input, the messages it transmitted, the callable bodies it entered  *)
(* and whether an exception left it.  loop_alive is the receive thread or  *)
(* polling thread still being inside its loop.                             *)
(***************************************************************************)
VARIABLES registered_tools, exchange_tokens, toolkit_hash, active_app_sessions,
          protocol, running, loop_alive, handled, replies, invoked, escaped

\* LLMClient fields, its caller threads (caller_pc, caller_req, caller_ret) and the server's pushes
VARIABLES llm_ws, authenticated, response_data, caller_pc, caller_req, caller_ret, next_uuid,
          pushes, first_response, arrivals

\* the thread using an LLMClient: its position (new: fields initialised,
\* waiting: inside _connect's wait loop, idle: between methods, dead: the
\* constructor raised), the method it called last, how that method ended,
\* and whether the authentication bound has passed since the wait began
VARIABLES conn_pc, conn_method, conn_out, auth_deadline

connvars == <<conn_pc, conn_method, conn_out, auth_deadline>>

llmvars == <<llm_ws, authenticated, response_data, caller_pc, caller_req, caller_ret, next_uuid,
             pushes, first_response, arrivals, connvars>>

\* ToolKitClient lifecycle: the ws attribute, the idle watcher thread, the
\* FileWatcher (its thread and running flag), the default of auto_restart, the
\* main thread's position in start(), the position of each thread that called
\* stop(), and whether now - last_activity_time exceeds idle_timeout
VARIABLES ws, idle_thread, watcher_thread, fw_running, auto_restart,
          main_pc, stop_pc, idle_expired

lifevars == <<ws, idle_thread, watcher_thread, fw_running, auto_restart,
              main_pc, stop_pc, idle_expired>>

\* result reports: the threads inside _report_execution (idle, or holding a
\* popped token before the POST), what each holds, and the reports posted
VARIABLES rep_pc, rep_arg, reports

repvars == <<rep_pc, rep_arg, reports>>

\* LLMClient tool-call formatting: the method called last (none, format,
\* call_tool), its batch and provider, the formatted calls, call_tool's outcome
VARIABLES fmt_op, fmt_calls, fmt_provider, fmt_out, call_out

fmtvars == <<fmt_op, fmt_calls, fmt_provider, fmt_out, call_out>>

\* inbound invocations in time: those the server has sent and the transport
\* thread has not taken up yet (frames on the socket, items in the inbox), and
\* the one whose callable that thread is inside
VARIABLES inflight, executing

concvars == <<inflight, executing>>

\* LLMClient.lock (free, or the thread that holds it) and, for the receive
\* thread and a caller thread, the access to shared fields it is in the middle of
VARIABLES llm_lock, accessing

lockvars == <<llm_lock, accessing>>

\* state that the operations modelled above leave alone
\* where the Duplex thread is in _run_ws_loop: before its first connection
\* ("init"), inside run_forever, after run_forever returned or raised, or
\* after the sleep of the except arm
VARIABLES ws_pc

loopvars == <<ws_pc>>

\* time, in ticks capped above IdleTimeout: activity_age is now minus
\* last_activity_time, inbound_age is the time since the client last received
\* an inbound message or a polled request
VARIABLES activity_age, inbound_age

idlevars == <<activity_age, inbound_age>>

\* the connections of an LLMClient, numbered in the order _connect creates
\* them: conn_count so far, handle is the one self.ws refers to (0 for None),
\* live are those whose run_forever thread still delivers callbacks, closing
\* those of them whose socket was closed, confirmed those on which the server
\* confirmed authentication, cb_conn is the connection whose callback ran in
\* the last step (0 if none did)
VARIABLES conn_count, handle, live, closing, confirmed, cb_conn

genvars == <<conn_count, handle, live, closing, confirmed, cb_conn>>

oldext == <<repvars, fmtvars, concvars, lockvars>>
extvars == <<oldext, loopvars, idlevars, genvars>>

tkvars == <<registered_tools, exchange_tokens, toolkit_hash, active_app_sessions,
            protocol, running, loop_alive, handled, replies, invoked, escaped, lifevars>>

NameSeq == <<"t1", "t2", "t3">>          \* tool names in sorted order
ToolNames == {NameSeq[i] : i \in 1..MaxTools}
GhostName == "ghost"                     \* a name nobody registers
RequestIds == {"r1", "r2"}
AuthTokens == {None, "tok"}
ParamDicts == {"text" :> "hi", "text" :> "yo"}
ActionData == {"inc", "keep", "quit", "crash"}
ExchangeToken == "x1"
ExchangeTokens == {"x1", "x2", "x3"}         \* tokens the server issues
Reporters == {"h1", "h2"}                    \* threads that report results

\* threads of an LLMClient and the places where they touch shared fields
LockThreads == {"receiver", "caller"}
Site(thread, method, fields, locked) ==
    [thread |-> thread, method |-> method, fields |-> fields, locked |-> locked]
NoSite == Site("none", "none", NoNames, FALSE)
StopCallers == {"main", "idle", "watcher"}   \* threads from which stop() is called
Methods == {"__init__", "get_toolkit_context", "call_tool", "call_tool_sequential"}

NoTools == [n \in NoNames |-> [function |-> EchoFn, params |-> NoNames,
                               source_code |-> "", code_hash |-> <<"sha256", <<"">> >>,
                               function_id |-> ""]]
NoTokens == [n \in NoNames |-> ""]
NoSessions == [r \in NoNames |-> [tool_name |-> "", function |-> EchoFn,
                                  state |-> "", auth_token |-> ""]]
NoHash == <<"None", <<>> >>

(***************************************************************************)
(* Tool registry.                                                          *)
(***************************************************************************)
SourceOf(f) == f.id                      \* inspect.getsource(func)
Sha256(text) == <<"sha256", text>>       \* collision-free digest of a text
DeclaredParams(f) == SigParameters(f) \ {"auth_token", "action", "action_data", "current_state"}

ToolData(name, f) ==
    [function |-> f, params |-> DeclaredParams(f), source_code |-> SourceOf(f),
     code_hash |-> Sha256(<<SourceOf(f)>>), function_id |-> name]

SortedNames(tools) == SelectSeq(NameSeq, LAMBDA n : n \in DOMAIN tools)

\* a digest over the sources with the tool registered last at the end
ComputeToolkitHashUnsorted(tools) ==
    LET last == handled'.name
        others == SelectSeq(NameSeq, LAMBDA n : n \in DOMAIN tools /\ n # last)
        order == IF last \in DOMAIN tools THEN Append(others, last) ELSE others
    IN  Sha256([i \in 1..Len(order) |-> tools[order[i]].source_code])

\* _compute_toolkit_hash: the sources concatenated in the order of sorted(items())
ComputeToolkitHash(tools) ==
    Sha256([i \in 1..Len(SortedNames(tools)) |-> tools[SortedNames(tools)[i]].source_code])

GenerateSampleParams(param_defs) ==
    [k \in param_defs \cup {"auth_token"} |->
        IF k = "auth_token" THEN "sample_token" ELSE "sample_value"]

ReservedInSignature(f) == "access_token" \in SigParameters(f) \/ "api_key" \in SigParameters(f)

\* the server's answer to POST /register_tool: 200, another status, no answer
RegisterAnswers == {"ok", "rejected", "network_error"}

\* the request _register_with_server posts to /register_tool
RegistrationPost(name, hash) ==
    [via |-> "http", type |-> "register_tool", request_id |-> name,
     result |-> <<"toolkit_hash", hash>>]

\* a registry in which the first tool registered under a name stays
StoreToolOnce(tools, name, f) ==
    IF name \in DOMAIN tools THEN tools ELSE Put(tools, name, ToolData(name, f))

\* self.registered_tools[function_name] = {...}
StoreTool(tools, name, f) == Put(tools, name, ToolData(name, f))

\* register_tool(function_name, ...)(func), _register_with_server included;
\* token is the exchange_token of the server's 200 answer
RegisterToolIssuing(name, f, answer, token) ==
    /\ handled' = [op |-> "register_tool", name |-> name, fn |-> f.id, answer |-> answer]
    /\ UNCHANGED <<active_app_sessions, protocol, running, loop_alive>>
    /\ UNCHANGED <<llmvars, lifevars, extvars>>
    /\ IF ReservedInSignature(f)
       THEN /\ escaped' = TRUE                       \* ValueError
            /\ invoked' = <<>>
            /\ replies' = <<>>
            /\ UNCHANGED <<registered_tools, exchange_tokens, toolkit_hash>>
       ELSE /\ registered_tools' = StoreTool(registered_tools, name, f)
            /\ toolkit_hash' = ComputeToolkitHash(registered_tools')
            /\ invoked' = InvokedBy(f, GenerateSampleParams(DeclaredParams(f)))
            /\ replies' = <<RegistrationPost(name, toolkit_hash')>>
            /\ escaped' = (answer = "network_error")  \* requests.post raises
            /\ exchange_tokens' = IF answer = "ok"
                                  THEN Put(exchange_tokens, name, token)
                                  ELSE exchange_tokens

RegisterTool(name, f, answer) == RegisterToolIssuing(name, f, answer, ExchangeToken)

(***************************************************************************)
(* Result reports: ToolKitClient._report_execution.                        *)
(***************************************************************************)
NoReport == [function_id |-> None, exchange_token |-> None]

\* a lookup that leaves the token in the map
PeekToken(tokens, function_id) ==
    [token |-> Get(tokens, function_id, None), rest |-> tokens]

\* self.exchange_tokens.pop(function_id, None), under the lock
PopToken(tokens, function_id) ==
    [token |-> Get(tokens, function_id, None), rest |-> Del(tokens, function_id)]

\* the request _report_execution posts to /execute_function
ReportPost(report) ==
    [via |-> "http", type |-> "execute_function", request_id |-> report.function_id,
     result |-> <<"exchange_token", report.exchange_token>>]

\* _report_execution up to the POST: the token is popped; without one the
\* method logs a warning and returns
ReportExecution(h, function_id) ==
    /\ rep_pc[h] = "idle"
    /\ LET popped == PopToken(exchange_tokens, function_id)
       IN  /\ exchange_tokens' = popped.rest
           /\ handled' = [op |-> "report_execution", thread |-> h,
                          function_id |-> function_id, token |-> popped.token]
           /\ IF Truthy(popped.token)
              THEN /\ rep_pc' = [rep_pc EXCEPT ![h] = "post"]
                   /\ rep_arg' = [rep_arg EXCEPT ![h] =
                                    [function_id |-> function_id,
                                     exchange_token |-> popped.token]]
              ELSE UNCHANGED <<rep_pc, rep_arg>>
    /\ replies' = <<>>
    /\ invoked' = <<>>
    /\ escaped' = FALSE
    /\ UNCHANGED <<registered_tools, toolkit_hash, active_app_sessions, protocol,
                   running, loop_alive, reports>>
    /\ UNCHANGED <<llmvars, lifevars, fmtvars, concvars, lockvars, loopvars, idlevars, genvars>>

\* _report_execution, the POST: its failure or a non-200 answer is logged
ReportExecutionPost(h) ==
    /\ rep_pc[h] = "post"
    /\ rep_pc' = [rep_pc EXCEPT ![h] = "idle"]
    /\ rep_arg' = [rep_arg EXCEPT ![h] = NoReport]
    /\ reports' = Append(reports, rep_arg[h])
    /\ handled' = [op |-> "report_post", thread |-> h]
    /\ replies' = <<ReportPost(rep_arg[h])>>
    /\ invoked' = <<>>
    /\ escaped' = FALSE
    /\ UNCHANGED <<registered_tools, exchange_tokens, toolkit_hash, active_app_sessions,
                   protocol, running, loop_alive>>
    /\ UNCHANGED <<llmvars, lifevars, fmtvars, concvars, lockvars, loopvars, idlevars, genvars>>

\* the orders in which a loop over the registry can meet its names
Orders(names) ==
    {p \in [1..Cardinality(names) -> names] : \A n \in names : \E i \in DOMAIN p : p[i] = n}

\* the names the loop of _re_register_tools reaches: it ends at the first
\* requests.post that raises
Reached(order, answers) ==
    SelectSeq([i \in DOMAIN order |-> i],
              LAMBDA i : \A j \in 1..(i - 1) : answers[order[j]] # "network_error")

RECURSIVE SampleInvocations(_, _)
SampleInvocations(tools, names) ==
    IF names = <<>> THEN <<>>
    ELSE InvokedBy(tools[Head(names)].function,
                   GenerateSampleParams(tools[Head(names)].params))
           \o SampleInvocations(tools, Tail(names))

\* the answer of POST /toolkit/verify_hash: 200 with up_to_date set, 200
\* without it or another status, no answer
VerifyAnswers == {"up_to_date", "stale", "failed"}

\* a check that never reports a match
VerifyToolkitHashNever(answer) == FALSE

\* _verify_toolkit_hash
VerifyToolkitHash(answer) == answer = "up_to_date"

\* a re-registration that leaves the tokens it finds
KeepTokens(tokens) == tokens

\* self.exchange_tokens.clear(), under the lock
ClearTokens(tokens) == [n \in (DOMAIN tokens) \ (DOMAIN tokens) |-> tokens[n]]

\* _re_register_tools
ReRegisterTools(verify, order, answers) ==
    LET hash == ComputeToolkitHash(registered_tools)
        reached == [i \in DOMAIN Reached(order, answers) |-> order[i]]
        accepted == {n \in DOMAIN registered_tools :
                        (\E i \in DOMAIN reached : reached[i] = n) /\ answers[n] = "ok"}
        cleared == ClearTokens(exchange_tokens)
    IN  /\ handled' = [op |-> "re_register_tools", verify |-> verify, answers |-> answers]
        /\ toolkit_hash' = hash
        /\ IF VerifyToolkitHash(verify)
           THEN /\ replies' = <<>>
                /\ invoked' = <<>>
                /\ escaped' = FALSE
                /\ UNCHANGED exchange_tokens
           ELSE /\ exchange_tokens' = [n \in (DOMAIN cleared) \cup accepted |->
                                          IF n \in accepted THEN ExchangeToken ELSE cleared[n]]
                /\ replies' = [i \in DOMAIN reached |-> RegistrationPost(reached[i], hash)]
                /\ invoked' = SampleInvocations(registered_tools, reached)
                /\ escaped' = (\E i \in DOMAIN reached : answers[reached[i]] = "network_error")
        /\ UNCHANGED <<registered_tools, active_app_sessions, protocol, running, loop_alive>>
        /\ UNCHANGED <<llmvars, lifevars, extvars>>

(***************************************************************************)
(* Inbound messages and the replies a handler transmits.                   *)
(***************************************************************************)
Message(type, rid, tool, params, token, data) ==
    [message_type |-> type, request_id |-> rid, tool_name |-> tool,
     params |-> params, auth_token |-> token, action_data |-> data]

\* names an inbound message can carry: every registered one and one that is not
InboundNames == (DOMAIN registered_tools) \cup {GhostName}

ToolRequests(type) ==
    {Message(type, rid, tool, params, token, None) :
        rid \in RequestIds, tool \in InboundNames, params \in ParamDicts, token \in AuthTokens}
AppRequests(type) ==
    {Message(type, rid, tool, EmptyDict, token, None) :
        rid \in RequestIds, tool \in InboundNames, token \in AuthTokens}
AppActions(type) ==
    {Message(type, rid, None, EmptyDict, None, data) : rid \in RequestIds, data \in ActionData}
AppTerminates(type) ==
    {Message(type, rid, None, EmptyDict, None, None) : rid \in RequestIds}
OtherMessages ==
    {Message(type, None, None, EmptyDict, None, None) : type \in {"atp_client_connected", "bogus"}}

WsMessages ==
    ToolRequests("atp_tool_request") \cup AppRequests("atp_app_request")
      \cup AppActions("atp_app_action") \cup AppTerminates("atp_app_terminate")
      \cup OtherMessages

\* what the inbox hands out: standard invocations and interactive items
InboxItems ==
    ToolRequests("atp_tool_request") \cup AppRequests("atp_app_request")
      \cup AppActions("atp_app_action") \cup AppTerminates("atp_app_terminate")

\* outcome of the successive transmissions of one handler call
WsSendScripts == {<<TRUE, TRUE>>, <<FALSE, FALSE>>}
HttpSendScripts == {<<TRUE, TRUE>>, <<FALSE, TRUE>>, <<FALSE, FALSE>>}
\* a third component says that the submissions the client saw fail had reached
\* the server: its answer was an error status, came too late or was no JSON
HttpHeardScripts == {<<FALSE, TRUE, TRUE>>, <<FALSE, FALSE, TRUE>>}
Heard(sendok) == Len(sendok) > 2 /\ sendok[3]
SendFailed == "send failed"              \* str(e) of a transport exception

WsReply(type, rid, result) ==
    [via |-> "ws", type |-> type, request_id |-> rid, result |-> result]
InboxReply(rid, result) ==
    [via |-> "inbox", type |-> "respond", request_id |-> rid, result |-> result]

Outcome(sessions, sent, calls, exc) ==
    [sessions |-> sessions, replies |-> sent, invoked |-> calls, escaped |-> exc]
Nothing == Outcome(active_app_sessions, <<>>, <<>>, FALSE)

InitFailed(m) ==
    CASE m = "boom" -> "App initialization failed: boom"
      [] m = "TypeError" -> "App initialization failed: TypeError"
      [] OTHER -> "App initialization failed: send failed"
ActionFailed(m) ==
    CASE m = "boom" -> "App action processing failed: boom"
      [] m = "TypeError" -> "App action processing failed: TypeError"
      [] OTHER -> "App action processing failed: send failed"

(***************************************************************************)
(* Duplex dispatch: ToolKitClient.on_message.                              *)
(***************************************************************************)
\* a chain that sets auth_token whether or not a token came with the request
WsCallParamsAlways(func, msg) == Put(msg.params, "auth_token", msg.auth_token)

\* arguments of a standard invocation (the if/elif chain under `if auth_token`)
WsCallParams(func, msg) ==
    IF Truthy(msg.auth_token)
    THEN IF "auth_token" \in SigParameters(func) /\ Truthy(msg.auth_token)
         THEN Put(msg.params, "auth_token", msg.auth_token)
         ELSE IF HasVarKeyword(func) /\ Truthy(msg.auth_token)
              THEN Put(msg.params, "auth_token", msg.auth_token)
              ELSE msg.params
    ELSE msg.params

\* the third arm of that chain: the token is required and missing
WsMissingToken(func, msg) ==
    /\ Truthy(msg.auth_token)
    /\ ~("auth_token" \in SigParameters(func) /\ Truthy(msg.auth_token))
    /\ ~(HasVarKeyword(func) /\ Truthy(msg.auth_token))
    /\ "auth_token" \in SigParameters(func) /\ ~Truthy(msg.auth_token)

WsToolRequest(msg, sendok) ==
    LET func == registered_tools[msg.tool_name].function
        call_params == WsCallParams(func, msg)
        res == Call(func, call_params)
        reply(r) == WsReply("tool_response", msg.request_id, DictV(r))
        missing == IF WsMissingToken(func, msg) /\ sendok[1]
                   THEN <<reply(ErrorResult("requires auth_token"))>> ELSE <<>>
    IN  IF res.raised
        THEN Outcome(active_app_sessions,
                     missing \o (IF sendok[1] THEN <<reply(ErrorResult(res.msg))>> ELSE <<>>),
                     InvokedBy(func, call_params), ~sendok[1])
        ELSE IF sendok[1]
             THEN Outcome(active_app_sessions, missing \o <<reply(res.value)>>,
                          InvokedBy(func, call_params), FALSE)
             ELSE Outcome(active_app_sessions,
                          IF sendok[2] THEN <<reply(ErrorResult(SendFailed))>> ELSE <<>>,
                          InvokedBy(func, call_params), ~sendok[2])

\* `payload` is assigned in the atp_tool_request arm only; the other arms read it
PayloadBound(message_type) == message_type = "atp_tool_request"

\* _send_app_response logs a failed transmission and returns
WsAppRequest(msg, sendok) ==
    LET app_func == registered_tools[msg.tool_name].function
        call_params == IF Truthy(msg.auth_token)
                       THEN Put(msg.params, "auth_token", msg.auth_token)
                       ELSE msg.params
        kwargs == Put(call_params, "action", "start")
        res == Call(app_func, kwargs)
        session == [tool_name |-> msg.tool_name, function |-> app_func,
                    state |-> Get(res.value, "app_state", EmptyVal),
                    auth_token |-> msg.auth_token]
        reply(r) == WsReply("app_response", msg.request_id, r)
    IN  IF res.raised
        THEN Outcome(active_app_sessions,
                     IF sendok[1] THEN <<reply(DictV(ErrorResult(InitFailed(res.msg))))>> ELSE <<>>,
                     InvokedBy(app_func, kwargs), FALSE)
        ELSE Outcome(Put(active_app_sessions, msg.request_id, session),
                     IF sendok[1]
                     THEN <<reply(AtomV(Get(res.value, "ui_content", EmptyVal)))>> ELSE <<>>,
                     InvokedBy(app_func, kwargs), FALSE)

WsAppAction(msg, sendok) ==
    LET session == active_app_sessions[msg.request_id]
        kwargs == ("action" :> "user_action" @@ "action_data" :> msg.action_data
                   @@ "current_state" :> session.state @@ "auth_token" :> session.auth_token)
        res == Call(session.function, kwargs)
        updated == [active_app_sessions EXCEPT
                      ![msg.request_id].state = Get(res.value, "app_state", session.state)]
        reply(r) == WsReply("app_response", msg.request_id, r)
    IN  IF res.raised
        THEN Outcome(active_app_sessions,
                     IF sendok[1] THEN <<reply(DictV(ErrorResult(ActionFailed(res.msg))))>> ELSE <<>>,
                     InvokedBy(session.function, kwargs), FALSE)
        ELSE Outcome(IF Truthy(Get(res.value, "terminate", "False"))
                     THEN Del(updated, msg.request_id) ELSE updated,
                     IF sendok[1]
                     THEN <<reply(AtomV(Get(res.value, "ui_content", EmptyVal)))>> ELSE <<>>,
                     InvokedBy(session.function, kwargs), FALSE)

\* the body of the handler's outer try
WsHandle(msg, sendok) ==
    CASE msg.message_type = "atp_client_connected" -> Nothing
      [] msg.message_type = "atp_tool_request" ->
           IF msg.tool_name \in DOMAIN registered_tools
           THEN WsToolRequest(msg, sendok) ELSE Nothing
      [] msg.message_type = "atp_app_request" ->
           IF ~PayloadBound(msg.message_type)
           THEN Outcome(active_app_sessions, <<>>, <<>>, TRUE)   \* UnboundLocalError
           ELSE IF msg.tool_name \in DOMAIN registered_tools
                THEN WsAppRequest(msg, sendok) ELSE Nothing
      [] msg.message_type = "atp_app_action" ->
           IF ~PayloadBound(msg.message_type)
           THEN Outcome(active_app_sessions, <<>>, <<>>, TRUE)
           ELSE IF msg.request_id \in DOMAIN active_app_sessions
                THEN WsAppAction(msg, sendok) ELSE Nothing
      [] msg.message_type = "atp_app_terminate" ->
           IF ~PayloadBound(msg.message_type)
           THEN Outcome(active_app_sessions, <<>>, <<>>, TRUE)
           ELSE Outcome(Del(active_app_sessions, msg.request_id), <<>>, <<>>, FALSE)
      [] OTHER -> Nothing

\* a handler without the outer try: what the body raises leaves on_message
NotCaughtByHandler(out) == out

\* the outer `except Exception` logs whatever the body raised
CaughtByHandler(out) == [out EXCEPT !.escaped = FALSE]

OnMessage(msg, sendok) ==
    /\ protocol = "ws"
    /\ running
    /\ loop_alive
    /\ LET out == CaughtByHandler(WsHandle(msg, sendok))
       IN  /\ active_app_sessions' = out.sessions
           /\ replies' = out.replies
           /\ invoked' = out.invoked
           /\ escaped' = out.escaped
           /\ loop_alive' = ~out.escaped
    /\ handled' = [op |-> "on_message", msg |-> msg, sendok |-> sendok]
    /\ idle_expired' = FALSE                       \* last_activity_time = time.time()
    /\ activity_age' = 0
    /\ inbound_age' = 0
    /\ UNCHANGED <<registered_tools, exchange_tokens, toolkit_hash, protocol, running>>
    /\ UNCHANGED <<ws, idle_thread, watcher_thread, fw_running, auto_restart, main_pc, stop_pc>>
    /\ UNCHANGED <<llmvars, oldext, loopvars, genvars>>

(***************************************************************************)
(* Polling dispatch: ToolKitClient._poll_inbox_loop, one iteration.        *)
(***************************************************************************)
NoItem == Message(None, None, None, EmptyDict, None, None)

\* what GET /inbox produced: an error or non-200, an empty body, or an item
Fetches ==
    {[status |-> st, item |-> NoItem] : st \in {"failed", "empty"}}
      \cup {[status |-> "item", item |-> m] : m \in InboxItems}

\* poll_inbox_for_requests: the item, or None for every other outcome
PollInboxForRequests(fetch) == IF fetch.status = "item" THEN fetch.item ELSE NoItem

\* parameters that carry auth_token whatever the request and the signature
PollCallParamsAlways(func, req) == Put(req.params, "auth_token", req.auth_token)

\* call_params of the polling loop
PollCallParams(func, req) ==
    IF Truthy(req.auth_token) /\ ("auth_token" \in SigParameters(func) \/ HasVarKeyword(func))
    THEN Put(req.params, "auth_token", req.auth_token)
    ELSE req.params

PollToolRequest(req, sendok) ==
    LET func == registered_tools[req.tool_name].function
        call_params == PollCallParams(func, req)
        res == Call(func, call_params)
        reply(r) == InboxReply(req.request_id, DictV(r))
    IN  IF res.raised
        THEN Outcome(active_app_sessions,
                     IF sendok[1] THEN <<reply(ErrorResult(res.msg))>> ELSE <<>>,
                     InvokedBy(func, call_params), ~sendok[1])
        ELSE IF sendok[1]
             THEN Outcome(active_app_sessions, <<reply(res.value)>>,
                          InvokedBy(func, call_params), FALSE)
             ELSE Outcome(active_app_sessions,
                          IF sendok[2] THEN <<reply(ErrorResult(SendFailed))>> ELSE <<>>,
                          InvokedBy(func, call_params), ~sendok[2])

\* the submissions of PollToolRequest that reached the server: the one made
\* after the call, and the error result submitted when a returned result's
\* submission raised
PollReceived(req, sendok) ==
    LET func == registered_tools[req.tool_name].function
        res == Call(func, PollCallParams(func, req))
        reply(r) == InboxReply(req.request_id, DictV(r))
        first == IF res.raised THEN reply(ErrorResult(res.msg)) ELSE reply(res.value)
    IN  (IF sendok[1] \/ Heard(sendok) THEN <<first>> ELSE <<>>)
          \o (IF ~res.raised /\ ~sendok[1] /\ (sendok[2] \/ Heard(sendok))
              THEN <<reply(ErrorResult(SendFailed))>> ELSE <<>>)

\* a loop body that answers an unregistered name with an error result
PollHandleAnswersUnknown(fetch, sendok) ==
    LET req == PollInboxForRequests(fetch)
    IN  IF req # NoItem
        THEN IF req.tool_name \in DOMAIN registered_tools
             THEN PollToolRequest(req, sendok)
             ELSE Outcome(active_app_sessions,
                          <<InboxReply(req.request_id, DictV(ErrorResult("unknown tool")))>>,
                          <<>>, FALSE)
        ELSE Nothing

\* the body of the loop's try
PollHandle(fetch, sendok) ==
    LET req == PollInboxForRequests(fetch)
    IN  IF req # NoItem
        THEN IF req.tool_name \in DOMAIN registered_tools
             THEN PollToolRequest(req, sendok) ELSE Nothing
        ELSE Nothing

\* a loop without the outer handler: what the body raises ends the thread
NotCaughtByLoop(out) == out

\* the loop's `except Exception` logs, sleeps and goes round again
CaughtByLoop(out) == [out EXCEPT !.escaped = FALSE]

PollInboxLoop(fetch, sendok) ==
    /\ protocol = "http"
    /\ running
    /\ loop_alive
    /\ LET out == CaughtByLoop(PollHandle(fetch, sendok))
       IN  /\ active_app_sessions' = out.sessions
           /\ replies' = out.replies
           /\ invoked' = out.invoked
           /\ escaped' = out.escaped
           /\ loop_alive' = ~out.escaped
    /\ handled' = [op |-> "poll", msg |-> PollInboxForRequests(fetch),
                   sendok |-> sendok, fetch |-> fetch.status]
    /\ inbound_age' = IF fetch.status = "item" THEN 0 ELSE inbound_age
    /\ UNCHANGED activity_age                     \* last_activity_time is not assigned
    /\ UNCHANGED <<registered_tools, exchange_tokens, toolkit_hash, protocol, running>>
    /\ UNCHANGED <<llmvars, lifevars, oldext, loopvars, genvars>>

(***************************************************************************)
(* Interactive sessions over HTTP: the _handle_app_*_http methods.         *)
(* _send_tool_result_inbox re-raises a failed transmission.                *)
(***************************************************************************)
HandleAppRequestOutcome(req, sendok) ==
    IF req.tool_name \notin DOMAIN registered_tools
    THEN Nothing
    ELSE LET app_func == registered_tools[req.tool_name].function
             call_params == IF Truthy(req.auth_token)
                            THEN Put(req.params, "auth_token", req.auth_token)
                            ELSE req.params
             kwargs == Put(call_params, "action", "start")
             res == Call(app_func, kwargs)
             session == [tool_name |-> req.tool_name, function |-> app_func,
                         state |-> Get(res.value, "app_state", EmptyVal),
                         auth_token |-> req.auth_token]
             reply(r) == InboxReply(req.request_id, r)
         IN  IF res.raised
             THEN Outcome(active_app_sessions,
                          IF sendok[1]
                          THEN <<reply(DictV(ErrorResult(InitFailed(res.msg))))>> ELSE <<>>,
                          InvokedBy(app_func, kwargs), ~sendok[1])
             ELSE IF sendok[1]
                  THEN Outcome(Put(active_app_sessions, req.request_id, session),
                               <<reply(AtomV(Get(res.value, "ui_content", EmptyVal)))>>,
                               InvokedBy(app_func, kwargs), FALSE)
                  ELSE Outcome(Put(active_app_sessions, req.request_id, session),
                               IF sendok[2]
                               THEN <<reply(DictV(ErrorResult(InitFailed(SendFailed))))>>
                               ELSE <<>>,
                               InvokedBy(app_func, kwargs), ~sendok[2])

HandleAppActionOutcome(req, sendok) ==
    IF req.request_id \notin DOMAIN active_app_sessions
    THEN Nothing
    ELSE LET session == active_app_sessions[req.request_id]
             kwargs == ("action" :> "user_action" @@ "action_data" :> req.action_data
                        @@ "current_state" :> session.state
                        @@ "auth_token" :> session.auth_token)
             res == Call(session.function, kwargs)
             updated == [active_app_sessions EXCEPT
                           ![req.request_id].state = Get(res.value, "app_state", session.state)]
             reply(r) == InboxReply(req.request_id, r)
         IN  IF res.raised
             THEN Outcome(active_app_sessions,
                          IF sendok[1]
                          THEN <<reply(DictV(ErrorResult(ActionFailed(res.msg))))>> ELSE <<>>,
                          InvokedBy(session.function, kwargs), ~sendok[1])
             ELSE IF sendok[1]
                  THEN Outcome(IF Truthy(Get(res.value, "terminate", "False"))
                               THEN Del(updated, req.request_id) ELSE updated,
                               <<reply(AtomV(Get(res.value, "ui_content", EmptyVal)))>>,
                               InvokedBy(session.function, kwargs), FALSE)
                  ELSE Outcome(updated,
                               IF sendok[2]
                               THEN <<reply(DictV(ErrorResult(ActionFailed(SendFailed))))>>
                               ELSE <<>>,
                               InvokedBy(session.function, kwargs), ~sendok[2])

HandleAppTerminateOutcome(req) ==
    IF req.request_id \in DOMAIN active_app_sessions
    THEN Outcome(Del(active_app_sessions, req.request_id), <<>>, <<>>, FALSE)
    ELSE Nothing

HttpHandler(op, req, sendok, out) ==
    /\ active_app_sessions' = out.sessions
    /\ replies' = out.replies
    /\ invoked' = out.invoked
    /\ escaped' = out.escaped
    /\ handled' = [op |-> op, msg |-> req, sendok |-> sendok]
    /\ UNCHANGED <<registered_tools, exchange_tokens, toolkit_hash, protocol,
                   running, loop_alive>>
    /\ UNCHANGED <<llmvars, lifevars, extvars>>

HandleAppRequestHttp(req, sendok) ==
    HttpHandler("app_request_http", req, sendok, HandleAppRequestOutcome(req, sendok))

HandleAppActionHttp(req, sendok) ==
    HttpHandler("app_action_http", req, sendok, HandleAppActionOutcome(req, sendok))

HandleAppTerminateHttp(req) ==
    HttpHandler("app_terminate_http", req, <<TRUE, TRUE>>, HandleAppTerminateOutcome(req))

(***************************************************************************)
(* LLMClient._format_tool_calls and call_tool.  A raw tool call is a dict  *)
(* (shape "dict") or a value without get() and without attributes (shape   *)
(* "none"); of a dict the model keeps the provider's identifier field (a   *)
(* string, None, or "absent" for a missing key), its name and what its     *)
(* arguments field holds: a dict, JSON text of a dict, or text that is not *)
(* JSON.                                                                   *)
(***************************************************************************)
Absent == "absent"
RawCall(shape, id, name, arguments) ==
    [shape |-> shape, id |-> id, name |-> name, arguments |-> arguments]
RawCalls ==
    {RawCall("dict", id, name, arguments) :
        id \in {Absent, None, "c1"}, name \in {Absent, "f"},
        arguments \in {"dict", "json", "badjson"}}
      \cup {RawCall("none", Absent, Absent, Absent)}

Providers == {"openai", "OpenAI", "anthropic", "mistral", "mistralai", "cohere"}
Lower(provider) == IF provider = "OpenAI" THEN "openai" ELSE provider
SupportedProviders == {"openai", "anthropic", "mistral", "mistralai"}

GeneratedId == "call_uuid4"              \* f"call_{uuid.uuid4()}"
FormattedCall(function, parameters, tool_call_id, error) ==
    [function |-> function, parameters |-> parameters,
     tool_call_id |-> tool_call_id, error |-> error]

\* d.get(key, default) on a field of a raw call
GetField(v, default) == IF v = Absent THEN default ELSE v

\* call_id as the provider's arm computes it
CallId(call, provider) ==
    IF provider = "openai"
    THEN IF Truthy(GetField(call.id, None)) THEN call.id ELSE GeneratedId
    ELSE GetField(call.id, GeneratedId)

\* arguments as the provider's arm computes them: "args" is the dict given
Arguments(call, provider) ==
    IF provider = "anthropic"
    THEN IF call.arguments = "dict" THEN "args" ELSE EmptyVal
    ELSE CASE call.arguments = "dict" -> "args"
           [] call.arguments = "json" -> "args"      \* json.loads succeeds
           [] OTHER -> EmptyVal                      \* JSONDecodeError: logged

\* one turn of the loop of _format_tool_calls: the entry it appends
FormatEntry(call, provider) ==
    IF provider \notin SupportedProviders
    THEN FormattedCall("unknown", EmptyVal, GeneratedId, "Unsupported provider")
    ELSE IF call.shape # "dict"
    THEN FormattedCall("unknown", EmptyVal, GeneratedId, "AttributeError")
    ELSE IF ~Truthy(GetField(call.name, ""))
    THEN FormattedCall("unknown", EmptyVal, CallId(call, provider), "Missing function name")
    ELSE FormattedCall(call.name, Arguments(call, provider),
                       IF Truthy(CallId(call, provider))
                       THEN CallId(call, provider) ELSE GeneratedId,
                       "")

RECURSIVE FormatLoop(_, _, _)
FormatLoop(tool_calls, provider, formatted_calls) ==
    IF tool_calls = <<>> THEN formatted_calls
    ELSE FormatLoop(Tail(tool_calls), provider,
                    Append(formatted_calls, FormatEntry(Head(tool_calls), provider)))

\* _format_tool_calls
FormatToolCalls(tool_calls, provider) == FormatLoop(tool_calls, Lower(provider), <<>>)

\* what call_tool gives its caller: the exception it raises or "none", the
\* fragments it returns, and the number of task requests it made
CallOut(raised, fragments, requests) ==
    [raised |-> raised, fragments |-> fragments, requests |-> requests]
NoCallOut == CallOut("none", <<>>, 0)

Fragment(provider, tool_call_id) == [format |-> provider, tool_call_id |-> tool_call_id]

\* index of the first request the transport fails, 0 if none
FirstFailure(script) ==
    IF \E i \in DOMAIN script : ~script[i]
    THEN CHOOSE i \in DOMAIN script : ~script[i] /\ \A j \in 1..(i - 1) : script[j]
    ELSE 0

\* call_tool: script[i] says whether the server answers the i-th request;
\* _call_tool_sequential and _call_tool_http turn a failure into an error
\* result, _call_tool_ws raises it
CallTool(tool_calls, provider, sequential, proto, script) ==
    LET formatted == FormatToolCalls(tool_calls, provider)
        n == Len(formatted)
        fails == FirstFailure(script)
    IN  IF tool_calls = <<>>
        THEN CallOut("none", <<>>, 0)
        ELSE IF ~sequential /\ proto = "ws" /\ fails # 0
        THEN CallOut("WebSocketException", <<>>, fails)
        ELSE IF Lower(provider) \in SupportedProviders
        THEN CallOut("none",
                     [i \in 1..n |-> Fragment(Lower(provider), formatted[i].tool_call_id)], n)
        ELSE CallOut("ValueError", <<>>, n)

FormatToolCallsStep(tool_calls, provider) ==
    /\ fmt_op' = "format"
    /\ fmt_calls' = tool_calls
    /\ fmt_provider' = provider
    /\ fmt_out' = FormatToolCalls(tool_calls, provider)
    /\ call_out' = NoCallOut
    /\ UNCHANGED <<tkvars, llmvars, repvars, concvars, lockvars, loopvars, idlevars, genvars>>

CallToolStep(tool_calls, provider, sequential, proto, script) ==
    /\ fmt_op' = "call_tool"
    /\ fmt_calls' = tool_calls
    /\ fmt_provider' = provider
    /\ fmt_out' = FormatToolCalls(tool_calls, provider)
    /\ call_out' = CallTool(tool_calls, provider, sequential, proto, script)
    /\ UNCHANGED <<tkvars, llmvars, repvars, concvars, lockvars, loopvars, idlevars, genvars>>

(***************************************************************************)
(* Dispatch in time.  on_message runs in the thread of WebSocketApp's      *)
(* run_forever and _poll_inbox_loop is one thread: the callable is called  *)
(* inline, and the thread reads the next frame or item when it returned.   *)
(***************************************************************************)
\* the server sends an invocation
Deliver(msg) ==
    /\ Len(inflight) < Cardinality(RequestIds)
    /\ msg.request_id # executing.request_id
    /\ \A i \in DOMAIN inflight : inflight[i].request_id # msg.request_id
    /\ inflight' = Append(inflight, msg)
    /\ handled' = [op |-> "deliver"]
    /\ replies' = <<>>
    /\ invoked' = <<>>
    /\ escaped' = FALSE
    /\ UNCHANGED <<registered_tools, exchange_tokens, toolkit_hash, active_app_sessions,
                   protocol, running, loop_alive, executing>>
    /\ UNCHANGED <<llmvars, lifevars, repvars, fmtvars, lockvars, loopvars, idlevars, genvars>>

\* the transport thread, outside any callable, takes up the next invocation:
\* it enters the callable of a registered tool, and is done with an
\* invocation of an unregistered one at once
TakeInvocation ==
    /\ running
    /\ loop_alive
    /\ executing = NoItem
    /\ inflight # <<>>
    /\ executing' = IF Head(inflight).tool_name \in DOMAIN registered_tools
                    THEN Head(inflight) ELSE NoItem
    /\ inflight' = Tail(inflight)
    /\ handled' = [op |-> "take"]
    /\ replies' = <<>>
    /\ invoked' = <<>>
    /\ escaped' = FALSE
    /\ UNCHANGED <<registered_tools, exchange_tokens, toolkit_hash, active_app_sessions,
                   protocol, running, loop_alive>>
    /\ UNCHANGED <<llmvars, lifevars, repvars, fmtvars, lockvars, loopvars, idlevars, genvars>>

\* the handler's outcome on either transport
HandlerOutcome(msg, sendok) ==
    IF protocol = "ws"
    THEN CaughtByHandler(WsHandle(msg, sendok))
    ELSE CaughtByLoop(PollHandle([status |-> "item", item |-> msg], sendok))

\* the callable returns (or raises), the reply is transmitted, the handler ends
FinishExecution(sendok) ==
    /\ executing # NoItem
    /\ LET out == HandlerOutcome(executing, sendok)
       IN  /\ active_app_sessions' = out.sessions
           /\ replies' = out.replies
           /\ invoked' = out.invoked
           /\ escaped' = out.escaped
    /\ handled' = [op |-> "dispatch", msg |-> executing, sendok |-> sendok]
    /\ executing' = NoItem
    /\ UNCHANGED <<registered_tools, exchange_tokens, toolkit_hash, protocol,
                   running, loop_alive, inflight>>
    /\ UNCHANGED <<llmvars, lifevars, repvars, fmtvars, lockvars, loopvars, idlevars, genvars>>

(***************************************************************************)
(* Construction and start.                                                 *)
(***************************************************************************)
TkInit ==
    /\ registered_tools = NoTools
    /\ exchange_tokens = NoTokens
    /\ toolkit_hash = NoHash
    /\ active_app_sessions = NoSessions
    /\ protocol \in {"ws", "http"}
    /\ running = FALSE
    /\ loop_alive = FALSE
    /\ handled = [op |-> "init"]
    /\ replies = <<>>
    /\ invoked = <<>>
    /\ escaped = FALSE
    /\ ws = None
    /\ idle_thread = "none"
    /\ watcher_thread = "none"
    /\ fw_running = FALSE
    /\ auto_restart \in BOOLEAN
    /\ main_pc = "constructed"
    /\ stop_pc = [s \in StopCallers |-> "idle"]
    /\ idle_expired = FALSE

\* nothing is being reported, no batch was formatted
ExtInit ==
    /\ rep_pc = [h \in Reporters |-> "idle"]
    /\ rep_arg = [h \in Reporters |-> NoReport]
    /\ reports = <<>>
    /\ fmt_op = "none"
    /\ fmt_calls = <<>>
    /\ fmt_provider = "openai"
    /\ fmt_out = <<>>
    /\ call_out = NoCallOut
    /\ inflight = <<>>
    /\ executing = NoItem
    /\ llm_lock = "free"
    /\ accessing = [t \in LockThreads |-> NoSite]
    /\ ws_pc = "init"
    /\ activity_age = 0
    /\ inbound_age = 0
    /\ conn_count = 0
    /\ handle = 0
    /\ live = {}
    /\ closing = {}
    /\ confirmed = {}
    /\ cb_conn = 0

\* a step of the lifecycle: nothing is dispatched, registry and sessions stay
NoDispatch(op) ==
    /\ handled' = [op |-> op]
    /\ replies' = <<>>
    /\ invoked' = <<>>
    /\ escaped' = FALSE
    /\ UNCHANGED <<registered_tools, exchange_tokens, toolkit_hash, active_app_sessions>>

\* start(), first statements: the idle watcher thread is started while the
\* running flag is still unset
StartIdleWatcher ==
    /\ main_pc = "constructed"
    /\ main_pc' = "starting"
    /\ idle_thread' = "alive"
    /\ NoDispatch("start")
    /\ UNCHANGED <<protocol, running, loop_alive>>
    /\ UNCHANGED <<ws, watcher_thread, fw_running, auto_restart, stop_pc, idle_expired>>
    /\ UNCHANGED <<llmvars, extvars>>

\* start(), the rest: the running flag is set, the file watcher is started if
\* there is one, the transport thread enters its loop, run_forever begins
Start ==
    /\ main_pc = "starting"
    /\ ~running
    /\ running' = TRUE
    /\ loop_alive' = TRUE
    /\ main_pc' = "run_forever"
    /\ fw_running' = auto_restart
    /\ watcher_thread' = IF auto_restart THEN "alive" ELSE watcher_thread
    /\ handled' = [op |-> "start"]
    /\ replies' = <<>>
    /\ invoked' = <<>>
    /\ escaped' = FALSE
    /\ UNCHANGED <<registered_tools, exchange_tokens, toolkit_hash,
                   active_app_sessions, protocol>>
    /\ UNCHANGED <<ws, idle_thread, auto_restart, stop_pc, idle_expired>>
    /\ UNCHANGED <<llmvars, extvars>>

(***************************************************************************)
(* Lifecycle: the threads of a started ToolKitClient and stop().           *)
(***************************************************************************)
\* _run_ws_loop, one turn of `while True`: a new WebSocketApp is assigned to
\* self.ws and run_forever is entered; the running flag is not consulted
RunWsLoop ==
    /\ protocol = "ws"
    /\ loop_alive
    /\ ws # "open"
    /\ ws_pc # "raised"
    /\ ws' = "open"
    /\ ws_pc' = "run_forever"
    /\ NoDispatch("run_ws_loop")
    /\ UNCHANGED <<protocol, running, loop_alive>>
    /\ UNCHANGED <<idle_thread, watcher_thread, fw_running, auto_restart, main_pc,
                   stop_pc, idle_expired>>
    /\ UNCHANGED <<llmvars, oldext, idlevars, genvars>>

\* run_forever returns because the server or the network ended the connection
WsDisconnected ==
    /\ protocol = "ws"
    /\ ws = "open"
    /\ ws' = "closed"
    /\ ws_pc' = "returned"
    /\ NoDispatch("disconnected")
    /\ UNCHANGED <<protocol, running, loop_alive>>
    /\ UNCHANGED <<idle_thread, watcher_thread, fw_running, auto_restart, main_pc,
                   stop_pc, idle_expired>>
    /\ UNCHANGED <<llmvars, oldext, idlevars, genvars>>

\* the try body of _run_ws_loop raises: the except arm logs it and will sleep
WsRaised ==
    /\ protocol = "ws"
    /\ ws = "open"
    /\ ws' = "closed"
    /\ ws_pc' = "raised"
    /\ NoDispatch("raised")
    /\ UNCHANGED <<protocol, running, loop_alive>>
    /\ UNCHANGED <<idle_thread, watcher_thread, fw_running, auto_restart, main_pc,
                   stop_pc, idle_expired>>
    /\ UNCHANGED <<llmvars, oldext, idlevars, genvars>>

\* time.sleep(5), the last statement of the except arm, returns
ReconnectSleep ==
    /\ ws_pc = "raised"
    /\ ws_pc' = "slept"
    /\ NoDispatch("reconnect_sleep")
    /\ UNCHANGED <<protocol, running, loop_alive>>
    /\ UNCHANGED lifevars
    /\ UNCHANGED <<llmvars, oldext, idlevars, genvars>>

\* _poll_inbox_loop finds `while self.running` false: the polling thread ends
PollLoopExit ==
    /\ protocol = "http"
    /\ loop_alive
    /\ ~running
    /\ loop_alive' = FALSE
    /\ NoDispatch("poll_loop_exit")
    /\ UNCHANGED <<protocol, running>>
    /\ UNCHANGED lifevars
    /\ UNCHANGED <<llmvars, extvars>>

\* an age after ticks more ticks of the clock
Aged(age, ticks) == IF age + ticks > IdleTimeout THEN IdleTimeout + 1 ELSE age + ticks

\* the clock advances by ticks; idle_expired is the test of _watch_idle,
\* time.time() - self.last_activity_time > self.idle_timeout
TimePasses(ticks) ==
    /\ activity_age' = Aged(activity_age, ticks)
    /\ inbound_age' = Aged(inbound_age, ticks)
    /\ idle_expired' = (activity_age' > IdleTimeout)
    /\ NoDispatch("time")
    /\ UNCHANGED <<protocol, running, loop_alive>>
    /\ UNCHANGED <<ws, idle_thread, watcher_thread, fw_running, auto_restart, main_pc, stop_pc>>
    /\ UNCHANGED <<llmvars, oldext, loopvars, genvars>>

\* time passes with no inbound message until idle_timeout is exceeded
IdleTimePasses ==
    /\ ~idle_expired
    /\ TimePasses(IdleTimeout + 1 - activity_age)

\* one tick of the clock
Tick ==
    /\ ~idle_expired
    /\ TimePasses(1)

\* stop() from thread s up to the join of the file watcher thread: the running
\* flag is cleared, FileWatcher.stop() clears its flag and joins its thread,
\* which raises RuntimeError when s is that thread
StopEnter(s) ==
    /\ running' = FALSE
    /\ fw_running' = FALSE
    /\ stop_pc' = [stop_pc EXCEPT ![s] =
                      IF auto_restart /\ watcher_thread # "none" /\ s = "watcher"
                      THEN "raised" ELSE "fw_join"]

\* stop(): the file watcher thread is joined (if any), self.ws is closed (if any)
StopClose(s) ==
    /\ stop_pc[s] = "fw_join"
    /\ watcher_thread # "alive"
    /\ stop_pc' = [stop_pc EXCEPT ![s] = "ws_join"]
    /\ ws' = IF ws # None THEN "closed" ELSE ws
    /\ ws_pc' = IF ws = "open" THEN "returned" ELSE ws_pc
    /\ NoDispatch("stop")
    /\ UNCHANGED <<protocol, running, loop_alive>>
    /\ UNCHANGED <<idle_thread, watcher_thread, fw_running, auto_restart, main_pc, idle_expired>>
    /\ UNCHANGED <<llmvars, oldext, idlevars, genvars>>

\* stop(): ws_thread.join() returns (or there is no thread) and stop returns;
\* the idle watcher then breaks out of its loop, run_forever's handler ends
StopReturn(s) ==
    /\ stop_pc[s] = "ws_join"
    /\ ~loop_alive
    /\ stop_pc' = [stop_pc EXCEPT ![s] = "returned"]
    /\ idle_thread' = IF s = "idle" THEN "done" ELSE idle_thread
    /\ main_pc' = IF s = "main" THEN "returned" ELSE main_pc
    /\ NoDispatch("stop")
    /\ UNCHANGED <<protocol, running, loop_alive>>
    /\ UNCHANGED <<ws, watcher_thread, fw_running, auto_restart, idle_expired>>
    /\ UNCHANGED <<llmvars, extvars>>

\* _watch_idle, one turn of `while self.running`: the thread ends when the flag
\* is clear, calls stop() when the idle bound is exceeded, sleeps otherwise
WatchIdle ==
    /\ idle_thread = "alive"
    /\ stop_pc["idle"] = "idle"
    /\ IF ~running
       THEN /\ idle_thread' = "done"
            /\ UNCHANGED <<running, fw_running, stop_pc>>
       ELSE /\ idle_expired
            /\ StopEnter("idle")
            /\ UNCHANGED idle_thread
    /\ NoDispatch("watch_idle")
    /\ UNCHANGED <<protocol, loop_alive>>
    /\ UNCHANGED <<ws, watcher_thread, auto_restart, main_pc, idle_expired>>
    /\ UNCHANGED <<llmvars, extvars>>

\* run_forever: KeyboardInterrupt in the main thread, whose handler calls stop()
Interrupt ==
    /\ main_pc = "run_forever"
    /\ main_pc' = "stopping"
    /\ StopEnter("main")
    /\ NoDispatch("interrupt")
    /\ UNCHANGED <<protocol, loop_alive>>
    /\ UNCHANGED <<ws, idle_thread, watcher_thread, auto_restart, idle_expired>>
    /\ UNCHANGED <<llmvars, extvars>>

\* run_forever finds `while self.running` false: start() returns
RunForeverReturn ==
    /\ main_pc = "run_forever"
    /\ ~running
    /\ main_pc' = "returned"
    /\ NoDispatch("run_forever")
    /\ UNCHANGED <<protocol, running, loop_alive>>
    /\ UNCHANGED <<ws, idle_thread, watcher_thread, fw_running, auto_restart,
                   stop_pc, idle_expired>>
    /\ UNCHANGED <<llmvars, extvars>>

\* FileWatcher._watch_loop sees a changed file: the callback _on_code_change
\* calls stop(); what stop() raises is logged by the loop's `except Exception`
CodeChange ==
    /\ watcher_thread = "alive"
    /\ fw_running
    /\ stop_pc["watcher"] = "idle"
    /\ StopEnter("watcher")
    /\ NoDispatch("code_change")
    /\ UNCHANGED <<protocol, loop_alive>>
    /\ UNCHANGED <<ws, idle_thread, watcher_thread, auto_restart, main_pc, idle_expired>>
    /\ UNCHANGED <<llmvars, extvars>>

\* FileWatcher._watch_loop finds `while self.running` false: the thread ends
WatchLoopExit ==
    /\ watcher_thread = "alive"
    /\ ~fw_running
    /\ watcher_thread' = "done"
    /\ NoDispatch("watch_loop_exit")
    /\ UNCHANGED <<protocol, running, loop_alive>>
    /\ UNCHANGED <<ws, idle_thread, fw_running, auto_restart, main_pc, stop_pc, idle_expired>>
    /\ UNCHANGED <<llmvars, extvars>>

Stopping == \E s \in StopCallers : StopClose(s) \/ StopReturn(s)

Register ==
    \E name \in ToolNames, f \in Callables, answer \in RegisterAnswers :
        RegisterTool(name, f, answer)

\* registrations of a plain callable, of one that declares auth_token and of
\* one that declares api_key
RegisterReg ==
    \E name \in ToolNames, f \in {EchoFn, SecureFn, LegacyFn}, answer \in RegisterAnswers :
        RegisterTool(name, f, answer)

ReRegister ==
    \E verify \in VerifyAnswers, order \in Orders(DOMAIN registered_tools),
       answers \in [DOMAIN registered_tools -> RegisterAnswers] :
        ReRegisterTools(verify, order, answers)

\* registrations of the callables the interactive handlers can tell apart
RegisterApp ==
    \E name \in ToolNames, f \in {AppFn, EchoFn} : RegisterTool(name, f, "ok")

Receive ==
    \E msg \in WsMessages, sendok \in WsSendScripts : OnMessage(msg, sendok)

ReceiveApp ==
    \E msg \in AppRequests("atp_app_request") \cup AppActions("atp_app_action")
                 \cup AppTerminates("atp_app_terminate"),
       sendok \in WsSendScripts : OnMessage(msg, sendok)

Poll ==
    \E fetch \in Fetches, sendok \in HttpSendScripts : PollInboxLoop(fetch, sendok)

\* one standard invocation, with a token, answered over a working transport
DispatchReg ==
    \E tool \in InboundNames :
        LET msg == Message("atp_tool_request", "r1", tool, "text" :> "hi", "tok", None)
        IN  \/ OnMessage(msg, <<TRUE, TRUE>>)
            \/ PollInboxLoop([status |-> "item", item |-> msg], <<TRUE, TRUE>>)

AppRequestHttp ==
    \E req \in AppRequests("atp_app_request"), sendok \in HttpSendScripts :
        HandleAppRequestHttp(req, sendok)

AppActionHttp ==
    \E req \in AppActions("atp_app_action"), sendok \in HttpSendScripts :
        HandleAppActionHttp(req, sendok)

AppTerminateHttp ==
    \E req \in AppTerminates("atp_app_terminate") : HandleAppTerminateHttp(req)

(***************************************************************************)
(* LLMClient over the Duplex socket: correlation of outbound requests      *)
(* (get_toolkit_context, call_tool) with the responses the server pushes.  *)
(***************************************************************************)
Callers == 1..MaxCallers
Bodies == {"a", "b"}

ServerData(type, rid, body, success) ==
    [type |-> type, request_id |-> rid, body |-> body, success |-> success]
NoData == ServerData("None", 0, "None", FALSE)
NoResponses == [r \in {n \in {0} : FALSE} |-> NoData]

\* what the server can push once request IDs below next_uuid are in use
ServerMessages ==
    {ServerData(type, rid, body, TRUE) :
        type \in {"toolkit_context", "task_response"},
        rid \in 1..(next_uuid - 1), body \in Bodies}
      \cup {ServerData("task_response", 0, "a", TRUE)}      \* an ID no caller sent
      \cup {ServerData("auth_response", 0, "None", ok) : ok \in BOOLEAN}
      \cup {ServerData("bogus", 0, "None", TRUE)}

LlmNone ==
    /\ llm_ws = "None"
    /\ authenticated = FALSE
    /\ response_data = NoResponses
    /\ caller_pc = [c \in Callers |-> "idle"]
    /\ caller_req = [c \in Callers |-> 0]
    /\ caller_ret = [c \in Callers |-> NoData]
    /\ next_uuid = 1
    /\ pushes = 0
    /\ first_response = NoResponses
    /\ arrivals = <<>>
    /\ conn_pc = "new"
    /\ conn_method = "__init__"
    /\ conn_out = "none"
    /\ auth_deadline = FALSE

\* LLMClient(protocol="ws") returned: _connect saw the server authenticate
LlmConstructed ==
    /\ llm_ws = "open"
    /\ authenticated = TRUE
    /\ response_data = NoResponses
    /\ caller_pc = [c \in Callers |-> "idle"]
    /\ caller_req = [c \in Callers |-> 0]
    /\ caller_ret = [c \in Callers |-> NoData]
    /\ next_uuid = 1
    /\ pushes = 0
    /\ first_response = NoResponses
    /\ arrivals = <<>>
    /\ conn_pc = "idle"
    /\ conn_method = "__init__"
    /\ conn_out = "connected"
    /\ auth_deadline = FALSE

\* self.response_data[request_id] = data
StoreResponse(rd, data) == Put(rd, data.request_id, data)

\* LLMClient._on_message
LlmOnMessage(data) ==
    /\ llm_ws = "open"
    /\ pushes < MaxResponses
    /\ pushes' = pushes + 1
    /\ IF data.type = "auth_response"
       THEN /\ IF ~data.success
               THEN llm_ws' = "closed" /\ UNCHANGED authenticated      \* ws.close()
               ELSE authenticated' = TRUE /\ UNCHANGED llm_ws
            /\ UNCHANGED <<response_data, first_response, arrivals>>
       ELSE IF data.type \in {"toolkit_context", "task_response"}
            THEN /\ response_data' = StoreResponse(response_data, data)
                 /\ first_response' = IF data.request_id \in DOMAIN first_response
                                      THEN first_response
                                      ELSE Put(first_response, data.request_id, data)
                 /\ arrivals' = IF data.request_id \in DOMAIN first_response
                                THEN arrivals ELSE Append(arrivals, data.request_id)
                 /\ UNCHANGED <<llm_ws, authenticated>>
            ELSE UNCHANGED <<llm_ws, authenticated, response_data, first_response, arrivals>>
    /\ UNCHANGED <<caller_pc, caller_req, caller_ret, next_uuid>>
    /\ UNCHANGED connvars
    /\ UNCHANGED <<tkvars, extvars>>

\* LLMClient._on_error and _on_close, once they hold the lock
LlmOnClose ==
    /\ llm_ws # "None"
    /\ conn_pc # "waiting"                         \* _connect holds the lock while it waits
    /\ llm_ws' = "None"
    /\ authenticated' = FALSE
    /\ UNCHANGED <<response_data, caller_pc, caller_req, caller_ret, next_uuid, pushes, first_response, arrivals>>
    /\ UNCHANGED connvars
    /\ UNCHANGED <<tkvars, extvars>>

\* _get_toolkit_context_ws / _call_tool_ws up to the transmission: _connect,
\* the authenticated check, a fresh request ID, send under the lock.
\* Caller threads are numbered in the order they make their request.
SendRequest(c, auth_ok, send_ok) ==
    /\ caller_pc[c] = "idle"
    /\ \A d \in Callers : d < c => caller_pc[d] # "idle"
    /\ LET connected == llm_ws = "open" /\ authenticated
           sent == (connected \/ auth_ok) /\ send_ok
       IN  /\ llm_ws' = IF connected THEN llm_ws ELSE "open"
           /\ authenticated' = (connected \/ auth_ok)
           /\ caller_pc' = [caller_pc EXCEPT ![c] = IF sent THEN "waiting" ELSE "failed"]
           /\ caller_req' = [caller_req EXCEPT ![c] = IF connected \/ auth_ok THEN next_uuid ELSE 0]
           /\ next_uuid' = IF connected \/ auth_ok THEN next_uuid + 1 ELSE next_uuid
    /\ UNCHANGED <<response_data, caller_ret, pushes, first_response, arrivals>>
    /\ UNCHANGED connvars
    /\ UNCHANGED <<tkvars, extvars>>

\* a pop that hands out whichever response is stored, whatever its key
PopAnyResponse(rd, request_id) == rd[CHOOSE k \in DOMAIN rd : TRUE]

\* self.response_data.pop(request_id)
PopResponse(rd, request_id) == rd[request_id]

\* the wait loop finds the caller's request ID in response_data
ReturnResponse(c) ==
    /\ caller_pc[c] = "waiting"
    /\ caller_req[c] \in DOMAIN response_data
    /\ caller_ret' = [caller_ret EXCEPT ![c] = PopResponse(response_data, caller_req[c])]
    /\ response_data' = Del(response_data, caller_req[c])
    /\ caller_pc' = [caller_pc EXCEPT ![c] = "returned"]
    /\ UNCHANGED <<llm_ws, authenticated, caller_req, next_uuid, pushes, first_response, arrivals>>
    /\ UNCHANGED connvars
    /\ UNCHANGED <<tkvars, extvars>>

\* the wait loop finds the deadline passed: TimeoutError
TimeOut(c) ==
    /\ caller_pc[c] = "waiting"
    /\ caller_req[c] \notin DOMAIN response_data
    /\ caller_pc' = [caller_pc EXCEPT ![c] = "timed_out"]
    /\ UNCHANGED <<llm_ws, authenticated, response_data, caller_req, caller_ret, next_uuid,
                   pushes, first_response, arrivals>>
    /\ UNCHANGED connvars
    /\ UNCHANGED <<tkvars, extvars>>

\* a method that needs the connection enters _connect: it returns at once on
\* an open authenticated socket, else it holds the lock, starts a new
\* WebSocketApp thread and waits for self.authenticated
Connect(m) ==
    /\ \/ conn_pc = "new" /\ m = "__init__"
       \/ conn_pc = "idle" /\ m # "__init__"
    /\ conn_method' = m
    /\ IF llm_ws = "open" /\ authenticated
       THEN /\ conn_pc' = "idle"
            /\ conn_out' = "connected"
            /\ UNCHANGED <<llm_ws, auth_deadline>>
       ELSE /\ conn_pc' = "waiting"
            /\ conn_out' = "none"
            /\ llm_ws' = "open"
            /\ auth_deadline' = FALSE
    /\ UNCHANGED <<authenticated, response_data, caller_pc, caller_req, caller_ret, next_uuid,
                   pushes, first_response, arrivals>>
    /\ UNCHANGED <<tkvars, extvars>>

\* time.time() - start_time reaches the authentication bound
AuthBoundPasses ==
    /\ conn_pc = "waiting"
    /\ ~auth_deadline
    /\ auth_deadline' = TRUE
    /\ UNCHANGED <<llm_ws, authenticated, response_data, caller_pc, caller_req, caller_ret,
                   next_uuid, pushes, first_response, arrivals, conn_pc, conn_method, conn_out>>
    /\ UNCHANGED <<tkvars, extvars>>

\* what the caller of method m gets when _connect raises WebSocketException:
\* _call_tool_sequential catches it and call_tool returns a list of results
RaisedInConnect(m) ==
    CASE m = "__init__" -> [pc |-> "dead", out |-> "raised"]
      [] m = "call_tool_sequential" -> [pc |-> "idle", out |-> "result"]
      [] OTHER -> [pc |-> "idle", out |-> "raised"]

\* the wait loop ends: authenticated, or the bound passed and _connect raises
ConnectWaitEnds ==
    /\ conn_pc = "waiting"
    /\ authenticated \/ auth_deadline
    /\ IF authenticated
       THEN conn_pc' = "idle" /\ conn_out' = "connected"
       ELSE /\ conn_pc' = RaisedInConnect(conn_method).pc
            /\ conn_out' = RaisedInConnect(conn_method).out
    /\ UNCHANGED <<llm_ws, authenticated, response_data, caller_pc, caller_req, caller_ret,
                   next_uuid, pushes, first_response, arrivals, conn_method, auth_deadline>>
    /\ UNCHANGED <<tkvars, extvars>>

(***************************************************************************)
(* The connections of one LLMClient told apart.  _connect replaces self.ws *)
(* without closing the WebSocketApp it held, and every WebSocketApp is     *)
(* built with the same bound methods as callbacks: a callback gets its own *)
(* connection as argument ws and assigns the client's fields.              *)
(***************************************************************************)
\* _connect, as Connect, creating connection conn_count + 1
ConnectNew(m) ==
    /\ \/ conn_pc = "new" /\ m = "__init__"
       \/ conn_pc = "idle" /\ m # "__init__"
    /\ conn_method' = m
    /\ cb_conn' = 0
    /\ IF llm_ws = "open" /\ authenticated
       THEN /\ conn_pc' = "idle"
            /\ conn_out' = "connected"
            /\ UNCHANGED <<llm_ws, auth_deadline, conn_count, handle, live>>
       ELSE /\ conn_count < MaxConns
            /\ conn_pc' = "waiting"
            /\ conn_out' = "none"
            /\ llm_ws' = "open"
            /\ auth_deadline' = FALSE
            /\ conn_count' = conn_count + 1
            /\ handle' = conn_count + 1
            /\ live' = live \cup {conn_count + 1}
    /\ UNCHANGED <<authenticated, response_data, caller_pc, caller_req, caller_ret, next_uuid,
                   pushes, first_response, arrivals, closing, confirmed>>
    /\ UNCHANGED <<tkvars, oldext, loopvars, idlevars>>

\* _on_message called by connection g with the server's one auth_response
OnAuthResponse(g, success) ==
    /\ g \in live \ (closing \cup confirmed)
    /\ cb_conn' = g
    /\ IF success
       THEN /\ authenticated' = TRUE
            /\ confirmed' = confirmed \cup {g}
            /\ UNCHANGED <<llm_ws, closing>>
       ELSE /\ llm_ws' = IF g = handle THEN "closed" ELSE llm_ws     \* ws.close()
            /\ closing' = closing \cup {g}
            /\ UNCHANGED <<authenticated, confirmed>>
    /\ UNCHANGED <<response_data, caller_pc, caller_req, caller_ret, next_uuid,
                   pushes, first_response, arrivals>>
    /\ UNCHANGED connvars
    /\ UNCHANGED <<conn_count, handle, live>>
    /\ UNCHANGED <<tkvars, oldext, loopvars, idlevars>>

\* _on_error and _on_close called by connection g when it ends, once they
\* hold the lock
OnErrorOrClose(g) ==
    /\ g \in live
    /\ conn_pc # "waiting"                         \* _connect holds the lock while it waits
    /\ cb_conn' = g
    /\ llm_ws' = "None"
    /\ handle' = 0
    /\ authenticated' = FALSE
    /\ live' = live \ {g}
    /\ closing' = closing \ {g}
    /\ UNCHANGED <<response_data, caller_pc, caller_req, caller_ret, next_uuid,
                   pushes, first_response, arrivals>>
    /\ UNCHANGED connvars
    /\ UNCHANGED <<conn_count, confirmed>>
    /\ UNCHANGED <<tkvars, oldext, loopvars, idlevars>>

(***************************************************************************)
(* LLMClient's accesses to the fields its threads share.  A site is a      *)
(* place in the code where a thread reads or writes shared fields; locked  *)
(* says whether the place is inside `with self.lock`.                      *)
(***************************************************************************)

AccessSites ==
    {Site("receiver", "on_message.auth", {"authenticated"}, FALSE),
     Site("receiver", "on_message.store", {"response_data"}, FALSE),
     Site("receiver", "on_close", {"ws", "authenticated"}, TRUE),
     Site("caller", "connect", {"ws", "authenticated"}, TRUE),
     Site("caller", "check_authenticated", {"authenticated"}, FALSE),
     Site("caller", "send", {"ws"}, TRUE),
     Site("caller", "wait", {"response_data"}, FALSE)}

\* a thread arrives at a site; a locked site is entered once the lock is free
BeginAccess(site) ==
    /\ accessing[site.thread] = NoSite
    /\ site.thread = "receiver" => llm_ws = "open"
    /\ site.locked => llm_lock = "free"
    /\ llm_lock' = IF site.locked THEN site.thread ELSE llm_lock
    /\ accessing' = [accessing EXCEPT ![site.thread] = site]
    /\ UNCHANGED <<tkvars, llmvars, repvars, fmtvars, concvars, loopvars, idlevars, genvars>>

\* the access is made and the thread leaves the site, releasing what it holds;
\* the caller waits for the response to the request it sent, pushed is the
\* request ID of the response the receive thread stores
EndAccess(t, pushed) ==
    LET site == accessing[t]
        own == next_uuid - 1
    IN  /\ site # NoSite
        /\ accessing' = [accessing EXCEPT ![t] = NoSite]
        /\ llm_lock' = IF site.locked THEN "free" ELSE llm_lock
        /\ authenticated' =
              CASE site.method = "on_message.auth" -> TRUE
                [] site.method = "on_close" -> FALSE
                [] OTHER -> authenticated
        /\ llm_ws' =
              CASE site.method = "on_close" -> "None"
                [] site.method = "connect" -> "open"
                [] OTHER -> llm_ws
        /\ response_data' =
              CASE site.method = "on_message.store" ->
                     StoreResponse(response_data, ServerData("task_response", pushed, "a", TRUE))
                [] site.method = "wait" /\ own \in DOMAIN response_data ->
                     Del(response_data, own)
                [] OTHER -> response_data
        /\ next_uuid' = IF site.method = "send" /\ next_uuid <= MaxCallers
                        THEN next_uuid + 1 ELSE next_uuid
        /\ UNCHANGED <<caller_pc, caller_req, caller_ret, pushes, first_response, arrivals>>
        /\ UNCHANGED connvars
        /\ UNCHANGED <<tkvars, repvars, fmtvars, concvars, loopvars, idlevars, genvars>>

Arrive == \E site \in AccessSites : BeginAccess(site)
Leave == \E t \in LockThreads, pushed \in Callers : EndAccess(t, pushed)

CallMethod == \E m \in Methods : Connect(m)
Push == \E data \in ServerMessages : LlmOnMessage(data)
Request == \E c \in Callers, auth_ok \in BOOLEAN, send_ok \in BOOLEAN : SendRequest(c, auth_ok, send_ok)
Return == \E c \in Callers : ReturnResponse(c)
Expire == \E c \in Callers : TimeOut(c)

(***************************************************************************)
(* Specifications.                                                         *)
(***************************************************************************)
vars == <<tkvars, llmvars, extvars>>

\* standard dispatch of a ToolKitClient (auto_restart=False) on either transport
Init == TkInit /\ ~auto_restart /\ LlmNone /\ ExtInit
Next == Register \/ StartIdleWatcher \/ Start \/ Receive \/ Poll
Spec == Init /\ [][Next]_vars

\* the registry of a ToolKitClient through registration, re-registration,
\* start, dispatch and stop
NextReg ==
    \/ RegisterReg
    \/ ReRegister
    \/ StartIdleWatcher
    \/ Start
    \/ DispatchReg
    \/ Interrupt
    \/ Stopping
    \/ PollLoopExit
SpecReg == Init /\ [][NextReg]_vars

\* registrations, in any order, under two names
HashNames == {"t1", "t2"}
RegisterHash ==
    \E name \in HashNames, f \in {EchoFn, BoomFn, SecureFn}, answer \in RegisterAnswers :
        RegisterTool(name, f, answer)
NextHash == RegisterHash
SpecHash == Init /\ [][NextHash]_vars

\* tokens the server has not handed out or that were never sent back
FreshTokens ==
    ExchangeTokens \ ({exchange_tokens[n] : n \in DOMAIN exchange_tokens}
                         \cup {rep_arg[h].exchange_token : h \in Reporters}
                         \cup {reports[i].exchange_token : i \in DOMAIN reports})

\* accepted registrations, each answered with a token of its own
RegisterIssued ==
    \E name \in ToolNames, token \in FreshTokens :
        RegisterToolIssuing(name, EchoFn, "ok", token)

ReportBegin == \E h \in Reporters, function_id \in InboundNames : ReportExecution(h, function_id)
ReportSend == \E h \in Reporters : ReportExecutionPost(h)

\* result reports of a ToolKitClient, from two threads
NextReport == RegisterIssued \/ ReportBegin \/ ReportSend
SpecReport == Init /\ [][NextReport]_vars

\* batches of at most MaxBatch raw tool calls
Batches(calls) == UNION {[1..n -> calls] : n \in 0..MaxBatch}

\* the first batch a client formats
Format ==
    /\ fmt_op = "none"
    /\ \E tool_calls \in Batches(RawCalls), provider \in Providers :
          FormatToolCallsStep(tool_calls, provider)

\* call_tool on batches of a well-formed call and of a value that is no dict
CallToolAny ==
    /\ fmt_op = "none"
    /\ \E tool_calls \in Batches({RawCall("dict", "c1", "f", "dict"),
                                   RawCall("none", Absent, Absent, Absent)}),
          provider \in Providers, sequential \in BOOLEAN, proto \in {"ws", "http"} :
           \E script \in [DOMAIN tool_calls -> BOOLEAN] :
               CallToolStep(tool_calls, provider, sequential, proto, script)

\* an LLMClient formatting tool calls and executing them
NextFormat == Format \/ CallToolAny
SpecFormat == Init /\ [][NextFormat]_vars

\* standard invocations arriving while earlier ones execute
RegisterEcho == \E name \in ToolNames : RegisterTool(name, EchoFn, "ok")
DeliverRequest ==
    \E rid \in RequestIds, tool \in InboundNames :
        Deliver(Message("atp_tool_request", rid, tool, "text" :> "hi", "tok", None))
Finish == \E sendok \in {<<TRUE, TRUE>>} : FinishExecution(sendok)

NextConc ==
    \/ RegisterEcho
    \/ StartIdleWatcher
    \/ Start
    \/ DeliverRequest
    \/ TakeInvocation
    \/ Finish
SpecConc == Init /\ [][NextConc]_vars

\* the transport thread takes its steps; how long a callable runs is up to it
ConcFairness == WF_vars(TakeInvocation)
SpecConcFair == SpecConc /\ ConcFairness

\* interactive sessions of a ToolKitClient
NextApp ==
    \/ RegisterApp
    \/ StartIdleWatcher
    \/ Start
    \/ ReceiveApp
    \/ AppRequestHttp
    \/ AppActionHttp
    \/ AppTerminateHttp
\* the session handlers are called on a client of the Duplex transport
InitApp == Init /\ protocol = "ws"

SpecApp == InitApp /\ [][NextApp]_vars

\* a polled request is handled while the server answers submissions badly
PollHeard ==
    \E fetch \in {f \in Fetches : f.status = "item" /\ f.item.message_type = "atp_tool_request"},
       sendok \in HttpHeardScripts : PollInboxLoop(fetch, sendok)

\* standard dispatch on both transports over a transport that may fail after
\* the server has received a reply
NextWire == Register \/ StartIdleWatcher \/ Start \/ Receive \/ Poll \/ PollHeard
SpecWire == Init /\ [][NextWire]_vars

\* a polled request arrives and is handled
PollItem ==
    \E fetch \in {f \in Fetches : f.status = "item" /\ f.item.message_type = "atp_tool_request"} :
        PollInboxLoop(fetch, <<TRUE, TRUE>>)

\* a polling client under traffic, its idle watcher and the clock
NextIdle ==
    \/ RegisterEcho
    \/ StartIdleWatcher
    \/ Start
    \/ PollItem
    \/ Tick
    \/ WatchIdle
    \/ PollLoopExit
    \/ Stopping
InitIdle == Init /\ protocol = "http"
SpecIdle == InitIdle /\ [][NextIdle]_vars

\* a session is started under a request ID that has none; no action and no
\* terminate message follows
SessionStart ==
    \E req \in AppRequests("atp_app_request") :
        /\ req.request_id \notin DOMAIN active_app_sessions
        /\ HandleAppRequestHttp(req, <<TRUE, TRUE>>)

\* sessions left alone while the client's threads run and time passes
NextSession ==
    \/ RegisterApp
    \/ StartIdleWatcher
    \/ Start
    \/ SessionStart
    \/ RunWsLoop
    \/ PollLoopExit
    \/ IdleTimePasses
    \/ WatchIdle
    \/ Stopping
SpecSession == Init /\ [][NextSession]_vars

SessionFairness ==
    /\ WF_vars(Start)
    /\ WF_vars(RunWsLoop)
    /\ WF_vars(PollLoopExit)
    /\ WF_vars(IdleTimePasses)
    /\ WF_vars(WatchIdle)
    /\ WF_vars(Stopping)
SpecSessionFair == SpecSession /\ SessionFairness

\* the threads of a ToolKitClient from start() to stop()
NextLife ==
    \/ StartIdleWatcher
    \/ Start
    \/ RunWsLoop
    \/ WsDisconnected
    \/ WsRaised
    \/ ReconnectSleep
    \/ PollLoopExit
    \/ IdleTimePasses
    \/ WatchIdle
    \/ Interrupt
    \/ RunForeverReturn
    \/ CodeChange
    \/ WatchLoopExit
    \/ Stopping
InitLife == TkInit /\ LlmNone /\ ExtInit

SpecLife == InitLife /\ [][NextLife]_vars

\* every thread that can take a step eventually takes it, and time passes;
\* starting, interrupts, code changes and disconnections are up to the environment
LifeFairness ==
    /\ WF_vars(Start)
    /\ WF_vars(RunWsLoop)
    /\ WF_vars(ReconnectSleep)
    /\ WF_vars(PollLoopExit)
    /\ WF_vars(IdleTimePasses)
    /\ WF_vars(WatchIdle)
    /\ WF_vars(RunForeverReturn)
    /\ WF_vars(WatchLoopExit)
    /\ WF_vars(Stopping)
SpecLifeFair == SpecLife /\ LifeFairness

\* construction of an LLMClient with protocol "ws" and its later methods
InitConnect == TkInit /\ ~auto_restart /\ protocol = "http" /\ LlmNone /\ ExtInit
NextConnect == CallMethod \/ AuthBoundPasses \/ ConnectWaitEnds \/ Push \/ LlmOnClose
SpecConnect == InitConnect /\ [][NextConnect]_vars

\* an LLMClient constructed with protocol "ws"
InitLLM == TkInit /\ ~auto_restart /\ protocol = "http" /\ LlmConstructed /\ ExtInit
NextLLM == Push \/ LlmOnClose \/ Request \/ Return \/ Expire
SpecLLM == InitLLM /\ [][NextLLM]_vars

\* the receive thread and a caller thread of an LLMClient at the shared fields
NextLock == Arrive \/ Leave
SpecLock == InitLLM /\ [][NextLock]_vars

\* an LLMClient whose methods connect while the callbacks of every connection
\* it ever created keep arriving
CallMethodNew == \E m \in Methods : ConnectNew(m)
AuthResponse == \E g \in 1..MaxConns, success \in BOOLEAN : OnAuthResponse(g, success)
ErrorOrClose == \E g \in 1..MaxConns : OnErrorOrClose(g)
NextGen == CallMethodNew \/ AuthBoundPasses \/ ConnectWaitEnds \/ AuthResponse \/ ErrorOrClose
SpecGen == InitConnect /\ [][NextGen]_vars

(***************************************************************************)
(* Properties.                                                             *)
(***************************************************************************)
Returned(c) == caller_pc[c] = "returned"
TimedOut(c) == caller_pc[c] = "timed_out"

\* C1: a caller whose response arrived returns the first response pushed for
\* its request ID, and afterwards no entry for that ID is in response_data:
\* a second response for the ID is neither delivered nor retained.
C1_SecondResponseIsNoOp ==
    \A c \in Callers :
        Returned(c) =>
            /\ caller_ret[c] = first_response[caller_req[c]]
            /\ caller_req[c] \notin DOMAIN response_data

\* C2: after a caller timed out, response_data holds no entry for its request
\* ID, however late a response for it arrives, and nothing was delivered.
C2_LateResponseIsDropped ==
    \A c \in Callers :
        TimedOut(c) =>
            /\ caller_req[c] \notin DOMAIN response_data
            /\ caller_ret[c] = NoData

\* C3: every caller that returned holds the response whose request ID is the
\* one it sent, never a response carrying another caller's request ID.
C3_CorrelatedById ==
    \A c \in Callers :
        Returned(c) =>
            /\ caller_ret[c].request_id = caller_req[c]
            /\ \A d \in Callers \ {c} : caller_ret[c].request_id # caller_req[d]

\* two callers returned although their responses arrived in the reverse order
C3_OutOfOrderWitness ==
    \E c, d \in Callers :
        /\ Returned(c) /\ Returned(d)
        /\ caller_req[c] < caller_req[d]
        /\ \E i, j \in 1..Len(arrivals) :
              i < j /\ arrivals[i] = caller_req[d] /\ arrivals[j] = caller_req[c]

\* the state follows the dispatch of a standard invocation on either transport
StandardDispatched ==
    /\ handled.op \in {"on_message", "poll"}
    /\ handled.msg.message_type = "atp_tool_request"
DispatchedTool == registered_tools[handled.msg.tool_name].function
DispatchReply(result) ==
    IF handled.op = "on_message"
    THEN WsReply("tool_response", handled.msg.request_id, DictV(result))
    ELSE InboxReply(handled.msg.request_id, DictV(result))

\* C4: a standard invocation of a registered tool that declares no auth_token,
\* carrying no token, whose callable returns and whose reply the transport
\* accepts: the callable ran once on exactly the supplied parameters and the one
\* reply carries the request ID and the returned value (for echo, the parameters).
C4_ReplyCarriesResult ==
    (/\ StandardDispatched
     /\ handled.msg.tool_name \in DOMAIN registered_tools
     /\ "auth_token" \notin SigParameters(DispatchedTool)
     /\ ~Truthy(handled.msg.auth_token)
     /\ ~Call(DispatchedTool, handled.msg.params).raised
     /\ handled.sendok[1])
    => /\ invoked = <<Invocation(DispatchedTool, handled.msg.params)>>
       /\ replies = <<DispatchReply(Call(DispatchedTool, handled.msg.params).value)>>
       /\ (DispatchedTool = EchoFn => replies[1].result = DictV(handled.msg.params))

C4_EchoWitness ==
    /\ StandardDispatched
    /\ handled.msg.tool_name \in DOMAIN registered_tools
    /\ DispatchedTool = EchoFn
    /\ handled.msg.params = ("text" :> "hi")
    /\ ~Truthy(handled.msg.auth_token)
    /\ replies = <<WsReply("tool_response", handled.msg.request_id, DictV("text" :> "hi"))>>

\* C5: an invocation naming an unregistered tool sends no reply, enters no
\* callable, and no exception leaves the dispatcher: the loop is still running.
C5_UnknownToolDropped ==
    (/\ handled.op \in {"on_message", "poll"}
     /\ handled.msg.message_type \in {"atp_tool_request", "atp_app_request"}
     /\ handled.msg.tool_name \notin DOMAIN registered_tools)
    => /\ replies = <<>>
       /\ invoked = <<>>
       /\ ~escaped
       /\ loop_alive

C5_UnknownToolWitness ==
    /\ handled.op = "poll"
    /\ handled.msg.message_type = "atp_tool_request"
    /\ handled.msg.tool_name = GhostName
    /\ DOMAIN registered_tools # {}
    /\ replies = <<>>
    /\ loop_alive

\* the callable body entered by the last dispatch raised
CallableRaised ==
    /\ invoked # <<>>
    /\ Call(DispatchedTool, invoked[1].kwargs).raised

\* C6: when the callable of a standard invocation raises, no exception leaves
\* the dispatcher and the loop keeps running; the only reply is the error
\* result {"error": message} under the request ID, sent if the transport takes it.
C6_ExceptionBecomesErrorResult ==
    (/\ StandardDispatched
     /\ handled.msg.tool_name \in DOMAIN registered_tools
     /\ CallableRaised)
    => /\ ~escaped
       /\ loop_alive
       /\ replies = IF handled.sendok[1]
                    THEN <<DispatchReply(ErrorResult(Call(DispatchedTool, invoked[1].kwargs).msg))>>
                    ELSE <<>>

C6_RaisedWitness ==
    /\ StandardDispatched
    /\ handled.op = "poll"
    /\ handled.msg.tool_name \in DOMAIN registered_tools
    /\ CallableRaised
    /\ replies = <<InboxReply(handled.msg.request_id, DictV(ErrorResult("boom")))>>
    /\ loop_alive

\* C7: a standard invocation of a tool whose callable declares auth_token,
\* carrying no token, enters no callable and is answered with an error result.
C7_MissingTokenRejected ==
    (/\ StandardDispatched
     /\ handled.msg.tool_name \in DOMAIN registered_tools
     /\ "auth_token" \in SigParameters(DispatchedTool)
     /\ ~Truthy(handled.msg.auth_token))
    => /\ invoked = <<>>
       /\ (handled.sendok[1] =>
              /\ Len(replies) = 1
              /\ replies[1].request_id = handled.msg.request_id
              /\ "error" \in DOMAIN replies[1].result[2])

\* the arguments a session start passes to the app callable
StartKwargs(msg) ==
    Put(IF Truthy(msg.auth_token)
        THEN Put(msg.params, "auth_token", msg.auth_token) ELSE msg.params,
        "action", "start")

\* C8: a Duplex session start naming a registered tool that accepts the start
\* marker enters the callable with action = "start", stores a Session under the
\* request ID (tool name, callable, returned app_state, token) and, the socket
\* being up, sends an app response under that request ID.
C8_StartCreatesSession ==
    (/\ handled.op = "on_message"
     /\ handled.msg.message_type = "atp_app_request"
     /\ handled.msg.tool_name \in DOMAIN registered_tools
     /\ ~Call(DispatchedTool, StartKwargs(handled.msg)).raised)
    => /\ invoked = <<Invocation(DispatchedTool, StartKwargs(handled.msg))>>
       /\ handled.msg.request_id \in DOMAIN active_app_sessions
       /\ active_app_sessions[handled.msg.request_id] =
             [tool_name |-> handled.msg.tool_name, function |-> DispatchedTool,
              state |-> Get(Call(DispatchedTool, StartKwargs(handled.msg)).value,
                            "app_state", EmptyVal),
              auth_token |-> handled.msg.auth_token]
       /\ (handled.sendok[1] =>
              /\ Len(replies) = 1
              /\ replies[1].type = "app_response"
              /\ replies[1].request_id = handled.msg.request_id)

\* the step handles an action addressed to a session that is in the store
ActionOnSession ==
    /\ handled'.op \in {"on_message", "app_action_http"}
    /\ handled'.msg.message_type = "atp_app_action"
    /\ handled'.msg.request_id \in DOMAIN active_app_sessions

\* the arguments such an action is to pass: the state the store holds
ActionKwargs ==
    ("action" :> "user_action" @@ "action_data" :> handled'.msg.action_data
     @@ "current_state" :> active_app_sessions[handled'.msg.request_id].state
     @@ "auth_token" :> active_app_sessions[handled'.msg.request_id].auth_token)
ActionResult == Call(active_app_sessions[handled'.msg.request_id].function, ActionKwargs)

\* C9: an action on a stored session enters the session's callable with the
\* stored state, and the state stored afterwards is the app_state returned, or
\* the previous state when none was returned; the next action starts from it.
C9_ActionUpdatesState ==
    [][ActionOnSession =>
         /\ invoked' = <<Invocation(active_app_sessions[handled'.msg.request_id].function,
                                    ActionKwargs)>>
         /\ (handled'.msg.request_id \in DOMAIN active_app_sessions' =>
                active_app_sessions'[handled'.msg.request_id].state =
                   IF ActionResult.raised
                   THEN active_app_sessions[handled'.msg.request_id].state
                   ELSE Get(ActionResult.value, "app_state",
                            active_app_sessions[handled'.msg.request_id].state))]_vars

\* the step handles an external terminate message, or an action whose app
\* callable asks for termination in its return value (its reply transmitted)
TerminationRequested ==
    \/ /\ handled'.op \in {"on_message", "app_terminate_http"}
       /\ handled'.msg.message_type = "atp_app_terminate"
    \/ /\ ActionOnSession
       /\ ~ActionResult.raised
       /\ Truthy(Get(ActionResult.value, "terminate", "False"))
       /\ handled'.sendok[1]

\* the step handles an action addressed to an ID the store does not hold
ActionOnUnknownSession ==
    /\ handled'.op \in {"on_message", "app_action_http"}
    /\ handled'.msg.message_type = "atp_app_action"
    /\ handled'.msg.request_id \notin DOMAIN active_app_sessions

\* C10: a session is out of the store after an external terminate message for
\* its ID and after an action whose return value asks for termination; an
\* action for an ID that is not in the store enters no callable.
C10_TerminationRemovesSession ==
    [][/\ TerminationRequested =>
            handled'.msg.request_id \notin DOMAIN active_app_sessions'
       /\ ActionOnUnknownSession =>
            (invoked' = <<>> /\ active_app_sessions' = active_app_sessions)]_vars

\* C11: an action for an ID the session store does not hold enters no callable,
\* transmits no reply, leaves the store as it was, and no exception leaves the
\* handler (Duplex on_message and _handle_app_action_http alike).
C11_UnknownSessionIsNoOp ==
    [][ActionOnUnknownSession =>
          /\ invoked' = <<>>
          /\ replies' = <<>>
          /\ active_app_sessions' = active_app_sessions
          /\ ~escaped']_vars

\* an action for an absent ID was handled while another session was stored
C11_UnknownSessionWitness ==
    /\ handled.op = "app_action_http"
    /\ handled.msg.message_type = "atp_app_action"
    /\ handled.msg.request_id \notin DOMAIN active_app_sessions
    /\ active_app_sessions # NoSessions
    /\ invoked = <<>>
    /\ replies = <<>>
    /\ ~escaped

\* some call of stop() has returned / has been made
StopReturned == \E s \in StopCallers : stop_pc[s] = "returned"
StopCalled == \E s \in StopCallers : stop_pc[s] # "idle"

\* C12: once a call of stop() has returned, on either transport, the running
\* flag is clear, the socket is not open, and the transport thread, the idle
\* watcher and the file watcher have all finished, so none takes a further step.
C12_StopJoinsEverything ==
    StopReturned =>
        /\ ~running
        /\ ws # "open"
        /\ ~loop_alive
        /\ idle_thread # "alive"
        /\ watcher_thread # "alive"

\* C13: a running client whose idle bound is exceeded is eventually stopped by
\* its idle watcher: the running flag is cleared and the socket is not open.
C13_IdleWatcherStops ==
    (running /\ idle_expired) ~> (~running /\ ws # "open")

\* C14: once stop() has been called the Duplex loop opens no connection again.
C14_NoReconnectAfterStop ==
    [][StopCalled => ~(ws # "open" /\ ws' = "open")]_vars

\* C15: a wait for authentication that ends without self.authenticated set ends
\* with an error raised to the caller of the method, whichever method it was
\* (constructor, get_toolkit_context, call_tool): never with a returned result.
C15_ConnectFailsWithError ==
    [][(conn_pc = "waiting" /\ conn_pc' # "waiting" /\ ~authenticated')
          => conn_out' = "raised"]_vars

\* the callable handed to the registration the step / the state records
RegisteringFn == CHOOSE f \in Callables : f.id = handled'.fn
RegisteredFn == CHOOSE f \in Callables : f.id = handled.fn

C17_UpToDateSkipsReRegistration ==
    [][(handled'.op = "re_register_tools" /\ DOMAIN registered_tools # {})
          => /\ toolkit_hash' = toolkit_hash
             /\ (handled'.verify = "up_to_date"
                   => /\ replies' = <<>>
                      /\ invoked' = <<>>
                      /\ exchange_tokens' = exchange_tokens)]_vars

C17_UpToDateWitness ==
    /\ handled.op = "re_register_tools"
    /\ handled.verify = "up_to_date"
    /\ exchange_tokens # NoTokens
    /\ toolkit_hash = ComputeToolkitHash(registered_tools)
    /\ replies = <<>>

\* C18: a registration whose recomputed toolkit_hash equals the value the
\* server accepted with the registration just before it posts no request.
C18_MatchingHashSkipsRoundTrip ==
    [][(/\ handled.op = "register_tool" /\ handled.answer = "ok" /\ replies # <<>>
        /\ handled'.op = "register_tool"
        /\ toolkit_hash' = toolkit_hash)
          => replies' = <<>>]_vars

\* C19: a registration whose round trip fails, by a network error or by a
\* rejection, raises nothing to the registrant and the tool is in the registry.
C19_FailedRoundTripOnlyLogged ==
    (/\ handled.op = "register_tool"
     /\ ~ReservedInSignature(RegisteredFn)
     /\ handled.answer \in {"rejected", "network_error"})
    => /\ ~escaped
       /\ handled.name \in DOMAIN registered_tools
       /\ registered_tools[handled.name].function = RegisteredFn

\* C20: registering a tool that declares auth_token, the name under which
\* dispatch injects the token, fails and stores nothing; no tool in the registry
\* declares that name in its parameter list or in its callable.
C20_ReservedNameRejected ==
    /\ (handled.op = "register_tool" /\ "auth_token" \in SigParameters(RegisteredFn))
          => (escaped /\ replies = <<>>)
    /\ \A n \in DOMAIN registered_tools :
          /\ "auth_token" \notin registered_tools[n].params
          /\ "auth_token" \notin SigParameters(registered_tools[n].function)

\* C21: after any sequence of registrations the stored toolkit_hash is the
\* digest of the registered sources taken in name order, whatever the order in
\* which the tools were registered.
C21_HashInNameOrder ==
    DOMAIN registered_tools # {}
      => toolkit_hash =
           Sha256([i \in 1..Len(SortedNames(registered_tools)) |->
                      registered_tools[SortedNames(registered_tools)[i]].source_code])

\* the first name was registered after the second, with a different source
C21_SecondNameFirstWitness ==
    /\ handled.op = "register_tool"
    /\ handled.name = "t1"
    /\ DOMAIN registered_tools = {"t1", "t2"}
    /\ "t1" \notin DOMAIN exchange_tokens
    /\ "t2" \in DOMAIN exchange_tokens
    /\ registered_tools["t1"].source_code # registered_tools["t2"].source_code
    /\ toolkit_hash = Sha256(<<registered_tools["t1"].source_code,
                               registered_tools["t2"].source_code>>)

\* C22: no exchange token is sent in two result reports, also when threads
\* report for the same tool name at once, and _report_execution called for a
\* name that holds no token posts nothing.
C22_TokenReportedOnce ==
    [][/\ \A i, j \in DOMAIN reports' :
             reports'[i].exchange_token = reports'[j].exchange_token => i = j
       /\ \A h \in Reporters : rep_pc'[h] = "post" => Truthy(rep_arg'[h].exchange_token)
       /\ (handled'.op = "report_execution"
             /\ handled'.function_id \notin DOMAIN exchange_tokens)
            => (reports' = reports /\ rep_pc' = rep_pc /\ replies' = <<>>)]_vars

\* one thread holds the popped token of a name, not yet posted, and the other
\* thread's report for that name found none
C22_ConcurrentReportWitness ==
    /\ handled.op = "report_execution"
    /\ handled.thread = "h2"
    /\ handled.function_id \in DOMAIN registered_tools
    /\ handled.token = None
    /\ rep_pc["h2"] = "idle"
    /\ rep_pc["h1"] = "post"
    /\ rep_arg["h1"].function_id = handled.function_id

\* a raw call with a malformed or missing field: no dict, no function name, or
\* arguments that are not JSON
Malformed(call) ==
    call.shape # "dict" \/ call.name = Absent \/ call.arguments = "badjson"

\* C23: _format_tool_calls returns one entry per input call in input order,
\* entry i is what the call alone would give, a malformed call gives an entry
\* with an identifier and an error note, and under a supported provider a
\* well-formed call gives an entry with its name and no error note.
C23_OneEntryPerCall ==
    fmt_op = "format"
      => /\ Len(fmt_out) = Len(fmt_calls)
         /\ \A i \in DOMAIN fmt_calls :
               /\ fmt_out[i] = FormatToolCalls(<<fmt_calls[i]>>, fmt_provider)[1]
               /\ Malformed(fmt_calls[i])
                    => (fmt_out[i].error # "" /\ Truthy(fmt_out[i].tool_call_id))
               /\ (~Malformed(fmt_calls[i]) /\ Lower(fmt_provider) \in SupportedProviders)
                    => (fmt_out[i].error = "" /\ fmt_out[i].function = fmt_calls[i].name)

\* C24: call_tool with a provider outside the supported set raises an error
\* and returns no fragments, whatever the batch.
C24_UnknownProviderRaises ==
    (fmt_op = "call_tool" /\ Lower(fmt_provider) \notin SupportedProviders)
      => (call_out.raised # "none" /\ call_out.fragments = <<>>)

\* C25: in polling mode a failed inbox fetch or a failed result submission
\* does not end _poll_inbox_loop: nothing leaves the loop body, and the client,
\* still running, is in the loop and fetches again.
C25_PollFailureKeepsLoop ==
    (/\ handled.op = "poll"
     /\ (handled.fetch = "failed" \/ (invoked # <<>> /\ ~handled.sendok[1])))
      => (~escaped /\ protocol = "http" /\ running /\ loop_alive)

\* a tool ran and both the submission of its result and that of the error failed
C25_SubmissionFailedWitness ==
    /\ handled.op = "poll"
    /\ handled.fetch = "item"
    /\ handled.sendok = <<FALSE, FALSE>>
    /\ invoked # <<>>
    /\ replies = <<>>
    /\ loop_alive

\* C28: a polled item tagged as an interactive start, action or terminate is
\* handled by the session handler of its tag and not executed as a standard
\* invocation: a callable it runs is given the action, a start item for a
\* registered app whose reply was sent leaves a session, a terminate item
\* leaves none.
C28_PolledItemByTag ==
    (/\ handled.op = "poll"
     /\ handled.msg.message_type \in {"atp_app_request", "atp_app_action", "atp_app_terminate"})
      => /\ \A i \in DOMAIN invoked : "action" \in DOMAIN invoked[i].kwargs
         /\ (/\ handled.msg.message_type = "atp_app_request"
             /\ handled.msg.tool_name \in DOMAIN registered_tools
             /\ registered_tools[handled.msg.tool_name].function = AppFn
             /\ handled.sendok[1])
              => handled.msg.request_id \in DOMAIN active_app_sessions
         /\ handled.msg.message_type = "atp_app_terminate"
              => handled.msg.request_id \notin DOMAIN active_app_sessions

\* the invocation with this request ID was sent and is not taken up yet
Waiting(rid) == \E i \in DOMAIN inflight : inflight[i].request_id = rid

\* C26: an invocation that arrives at a running client is taken up by the
\* dispatcher however long the callable of another invocation executes.
C26_DispatchDoesNotWait ==
    \A rid \in RequestIds :
        (running /\ loop_alive /\ Waiting(rid)) ~> ~Waiting(rid)

\* C27: a thread that reads or writes a shared field of the LLMClient holds
\* the client's lock, and no two threads are at the same field at once.
C27_SharedStateUnderLock ==
    /\ \A t \in LockThreads : accessing[t] # NoSite => llm_lock = t
    /\ \A t, u \in LockThreads :
          t # u => accessing[t].fields \cap accessing[u].fields = {}

\* C29: a session that gets no action while the idle bound passes is removed
\* from the session store.
C29_IdleSessionRemoved ==
    \A rid \in RequestIds :
        (rid \in DOMAIN active_app_sessions /\ idle_expired)
          ~> (rid \notin DOMAIN active_app_sessions)

\* C30: after the file watcher has detected a change on a running client and
\* called the change callback, the client is eventually running again, unless
\* the main thread or the idle watcher has stopped it meanwhile.
C30_RestartAfterCodeChange ==
    (handled.op = "code_change")
      ~> (running \/ stop_pc["main"] # "idle" \/ stop_pc["idle"] # "idle")

\* C31: call_tool over a non-empty batch under a supported provider raises
\* nothing even when the transport fails one of the calls or its response
\* never comes: every call of the batch is requested and the caller gets one
\* result per call, on both transports, sequentially or not.
C31_BatchFailureContained ==
    (fmt_op = "call_tool" /\ fmt_calls # <<>> /\ Lower(fmt_provider) \in SupportedProviders)
      => /\ call_out.raised = "none"
         /\ call_out.requests = Len(fmt_calls)
         /\ Len(call_out.fragments) = Len(fmt_calls)

\* C32: in standard dispatch on either transport the callable that ran got the
\* supplied parameters, plus the request's token under the name auth_token
\* exactly when the request carried a token and the callable declares
\* auth_token or a **kwargs acceptor.
C32_TokenInjectedIffDeclared ==
    (/\ StandardDispatched
     /\ handled.msg.tool_name \in DOMAIN registered_tools
     /\ invoked # <<>>)
    => LET kwargs == invoked[1].kwargs
       IN  /\ ("auth_token" \in DOMAIN kwargs)
                <=> /\ Truthy(handled.msg.auth_token)
                    /\ \/ "auth_token" \in SigParameters(DispatchedTool)
                       \/ HasVarKeyword(DispatchedTool)
           /\ "auth_token" \in DOMAIN kwargs => kwargs["auth_token"] = handled.msg.auth_token
           /\ Del(kwargs, "auth_token") = handled.msg.params

C32_VariadicGetsTokenWitness ==
    /\ StandardDispatched
    /\ handled.op = "poll"
    /\ handled.msg.tool_name \in DOMAIN registered_tools
    /\ DispatchedTool = AnyKwFn
    /\ handled.msg.auth_token = "tok"
    /\ invoked = <<Invocation(AnyKwFn, Put(handled.msg.params, "auth_token", "tok"))>>

\* C33: on a running client the Duplex loop opens a connection after an
\* earlier one ended only when the reconnect delay has elapsed since that end,
\* whether run_forever returned or raised.
C33_ReconnectAfterDelay ==
    [][(running /\ ws_pc' = "run_forever" /\ ws_pc # "run_forever")
          => ws_pc \in {"init", "slept"}]_vars

\* C34: in polling mode the idle watcher stops a running client only when
\* more than the idle bound has passed since the client last received a
\* polled request.
C34_PolledRequestIsActivity ==
    [][(protocol = "http" /\ running /\ stop_pc["idle"] = "idle" /\ stop_pc'["idle"] # "idle")
          => inbound_age > IdleTimeout]_vars

\* the replies of the last standard dispatch that reached the server: over the
\* socket the ones sent, over the inbox also those whose answer was bad
Received ==
    IF handled.op = "poll" THEN PollReceived(handled.msg, handled.sendok) ELSE replies

\* C35: of the replies a standard invocation of a registered tool causes, at
\* most one carrying its request ID reaches the server, on either transport,
\* whether the tool raised, the token was missing or a transmission failed.
C35_AtMostOneReply ==
    (/\ StandardDispatched
     /\ handled.msg.tool_name \in DOMAIN registered_tools)
    => Cardinality({i \in DOMAIN Received :
                       Received[i].request_id = handled.msg.request_id}) <= 1

\* C36: a call of stop(), on either transport and from the main thread, the
\* idle watcher or the file watcher's callback, eventually returns.
C36_StopAlwaysReturns ==
    \A s \in StopCallers : (stop_pc[s] # "idle") ~> (stop_pc[s] = "returned")

\* C37: whenever the client is running its idle watcher thread is alive,
\* however the first steps of the watcher interleave with start().
C37_WatcherAliveWhileRunning ==
    running => idle_thread = "alive"

\* C38: whenever the authenticated flag is set, self.ws is a connection on
\* which the server confirmed authentication; and a callback of a connection
\* other than the one self.ws refers to changes neither the flag nor self.ws.
C38_AuthenticatedOnCurrentHandle ==
    /\ [](authenticated => (handle # 0 /\ handle \in confirmed))
    /\ [][(handle # 0 /\ cb_conn' # 0 /\ cb_conn' # handle)
            => (authenticated' = authenticated /\ handle' = handle)]_vars

\* the last handler call answered with an error result
ErrorReplied ==
    \E i \in DOMAIN replies :
        replies[i].result[1] = "dict" /\ "error" \in DOMAIN replies[i].result[2]

\* C39: after a session start that was answered with an error reply, on either
\* transport, the session store holds no session under its request ID.
C39_FailedStartLeavesNoSession ==
    (/\ handled.op \in {"on_message", "app_request_http"}
     /\ handled.msg.message_type = "atp_app_request"
     /\ ErrorReplied)
    => handled.msg.request_id \notin DOMAIN active_app_sessions

\* the step received a 200 answer to the registration of tool n
RegistrationAccepted(n) ==
    \/ handled'.op = "register_tool" /\ handled'.name = n /\ handled'.answer = "ok"
    \/ handled'.op = "re_register_tools" /\ handled'.answers[n] = "ok"

\* C40: exchange_tokens holds entries only under names of the registry; a
\* step after which a tool holds a token it did not hold before, and a
\* re-registration that went past the check after which a tool holds a token,
\* received a 200 answer to the registration of that tool.
C40_TokensFollowRegistration ==
    /\ [](DOMAIN exchange_tokens \subseteq DOMAIN registered_tools)
    /\ [][\A n \in DOMAIN exchange_tokens' :
            (\/ n \notin DOMAIN exchange_tokens
             \/ handled'.op = "re_register_tools" /\ handled'.verify # "up_to_date")
              => RegistrationAccepted(n)]_vars

C40_TokenAfterClearWitness ==
    /\ handled.op = "re_register_tools"
    /\ handled.verify = "stale"
    /\ \E n \in DOMAIN registered_tools :
          handled.answers[n] = "ok" /\ n \in DOMAIN exchange_tokens
====
